---- MODULE Spec2Model ----
(***************************************************************************)
(* Model of the maverick Texas Hold'em engine (src/src/maverick/game.py,   *)
(* src/src/maverick/state.py): the transition-tag queue, the hand          *)
(* lifecycle and the betting core.  Chip amounts are scaled down (blinds   *)
(* 1/2 instead of 10/20); cards are abstracted to counts and the showdown  *)
(* scores to a nondeterministic choice, since the deck is shuffled.        *)
(* Indices (current_player_index, button_position) are 0-based as in the   *)
(* code; the TLA+ sequence `players' is 1-based, hence At(ps, i).          *)
(***************************************************************************)
EXTENDS Integers, Sequences, FiniteSets, TLC

\* ---- configuration of the game under analysis --------------------------
\* Game(small_blind=1, big_blind=2, min_players=2, max_players=3, max_hands=2)
SmallBlind == 1
BigBlind == 2
MinPlayers == 2
MaxPlayers == 3
MaxHands == 2

\* ---- bounds of the model ------------------------------------------------
\* largest stack a player brings to the table
MaxStack == 3
\* number of distinct showdown scores
NumScores == 2
\* add_player / remove_player calls made between two step() calls of a run
MaxApiCalls == 1
\* handlers subscribed before a game, and players whose on_event hook raises
MaxHandlers == 2
MaxFailingHooks == 1
\* highest position of the deck a sample draws from, and the deepest cut of
\* a shuffle
MaxPick == 2
MaxCut == 1

VARIABLES
    state_type,            \* GameState.state_type (the stage)
    street,                \* GameState.street
    players,               \* GameState.players: sequence of player records
    current_player_index,  \* GameState.current_player_index (0-based)
    community_cards,       \* number of cards on the board
    deck,                  \* number of cards left in the deck
    pot,                   \* GameState.pot
    current_bet,           \* GameState.current_bet
    min_bet,               \* GameState.min_bet
    last_raise_size,       \* GameState.last_raise_size
    hand_number,           \* GameState.hand_number
    button_position,       \* GameState.button_position (0-based)
    event_queue,           \* Game._event_queue: FIFO of transition tags
    last,                  \* history: the last decision asked of a player
    hand_start_chips,      \* history: sum of the stacks when the hand began
    stepped,               \* history: the tag and return value of the last step()
    error,                 \* history: the error the last public call raised
    api_calls,             \* number of add/remove calls made between steps
    listeners,             \* subscribed handlers, in registration order
    failing_hooks,         \* ids of the players whose on_event raises
    notified,              \* history: who the last emitted event was given to
    scoring,               \* the scorer's run over the five-card hands
    dealing                \* the cards of one hand: deck, holdings, burns, board

vars == <<state_type, street, players, current_player_index, community_cards,
          deck, pot, current_bet, min_bet, last_raise_size, hand_number,
          button_position, event_queue, last, hand_start_chips, stepped,
          error, api_calls, listeners, failing_hooks, notified, scoring,
          dealing>>

\* ---- hand scoring (utils/scoring.py) ----------------------------------------
Suits == {"H", "S", "C", "D"}
Ranks == 2..14
HandTypes ==
    <<"HIGH_CARD", "PAIR", "TWO_PAIR", "THREE_OF_A_KIND", "STRAIGHT", "FLUSH",
      "FULL_HOUSE", "FOUR_OF_A_KIND", "STRAIGHT_FLUSH", "ROYAL_FLUSH">>

\* position of a hand type in the hierarchy, weakest first
TypeRank(handtype) == CHOOSE i \in 1..Len(HandTypes) : HandTypes[i] = handtype

\* list.count(x)
Count(xs, x) == Cardinality({i \in 1..Len(xs) : xs[i] = x})

\* sorted(set(xs), reverse=True)
RECURSIVE SortedDesc(_)
SortedDesc(S) ==
    IF S = {} THEN <<>>
    ELSE LET m == CHOOSE x \in S : \A y \in S : y <= x
         IN  <<m>> \o SortedDesc(S \ {m})

\* sorted(set(xs))
RECURSIVE SortedAsc(_)
SortedAsc(S) ==
    IF S = {} THEN <<>>
    ELSE LET m == CHOOSE x \in S : \A y \in S : x <= y
         IN  <<m>> \o SortedAsc(S \ {m})

\* sorted(xs, reverse=True), duplicates kept
RECURSIVE SortedListDesc(_)
SortedListDesc(xs) ==
    IF xs = <<>> THEN <<>>
    ELSE LET k == CHOOSE i \in 1..Len(xs) : \A j \in 1..Len(xs) : xs[j] <= xs[i]
         IN  <<xs[k]>> \o
             SortedListDesc([i \in 1..(Len(xs) - 1) |->
                                IF i < k THEN xs[i] ELSE xs[i + 1]])

\* the value a loop "for i in numbers: if numbers.count(i) == n: v = i" leaves
LastWithCount(numbers, n) ==
    LET at == {i \in 1..Len(numbers) : Count(numbers, numbers[i]) = n}
    IN  numbers[CHOOSE i \in at : \A j \in at : j <= i]

\* the entries of numbers whose count is one of counts, as a set
Entries(numbers, counts) ==
    {numbers[i] : i \in {j \in 1..Len(numbers) :
                             Count(numbers, numbers[j]) \in counts}}

\* every count but n
Not(numbers, n) == (1..Len(numbers)) \ {n}

\* a score  whole + frac[1] / 100 + frac[2] / 100 ** 2 + ...  kept as its whole
\* part and the numerators of its fraction; every numerator is a rank or 0
ScoreOf(whole, frac) == [whole |-> whole, frac |-> frac]

Numerator(score, i) == IF i <= Len(score.frac) THEN score.frac[i] ELSE 0

\* score a < score b, numerators being below 100
Less(a, b) ==
    LET n == IF Len(a.frac) >= Len(b.frac) THEN Len(a.frac) ELSE Len(b.frac)
    IN  \/ a.whole < b.whole
        \/ /\ a.whole = b.whole
           /\ \E i \in 1..n :
                 /\ Numerator(a, i) < Numerator(b, i)
                 /\ \A j \in 1..(i - 1) : Numerator(a, j) = Numerator(b, j)

check_four_of_a_kind(numbers) ==
    LET four_val == LastWithCount(numbers, 4)
        kickers == SortedDesc(Entries(numbers, Not(numbers, 4)))
    IN  ScoreOf(800 + four_val, kickers)

\* a full house scored without its base
check_full_house_without_base(numbers) ==
    ScoreOf(LastWithCount(numbers, 3), <<LastWithCount(numbers, 2)>>)

check_full_house(numbers) ==
    LET triple_val == LastWithCount(numbers, 3)
        pair_val == LastWithCount(numbers, 2)
    IN  ScoreOf(700 + triple_val, <<pair_val>>)

check_three_of_a_kind(numbers) ==
    LET triple_val == LastWithCount(numbers, 3)
        kickers == SortedDesc(Entries(numbers, Not(numbers, 3)))
    IN  ScoreOf(400 + triple_val, kickers)

check_two_pair(numbers) ==
    LET pairs == SortedDesc(Entries(numbers, {2}))
        kickers == SortedDesc(Entries(numbers, {1}))
    IN  ScoreOf(300 + pairs[1], <<pairs[2]>> \o kickers)

check_pair(numbers) ==
    LET pair_val == LastWithCount(numbers, 2)
        kickers == SortedDesc(Entries(numbers, Not(numbers, 2)))
    IN  ScoreOf(200 + pair_val, kickers)

\* the loop over the windows of five unique ranks, then the wheel
StraightHighCard(unique_ranks) ==
    LET n == Len(unique_ranks)
        hits == {i \in 1..(n - 4) : unique_ranks[i + 4] - unique_ranks[i] = 4}
        high == IF n < 5 \/ hits = {} THEN 0
                ELSE unique_ranks[(CHOOSE i \in hits : \A j \in hits : j <= i) + 4]
        wheel == n >= 5 /\ {14, 2, 3, 4, 5} \subseteq
                              {unique_ranks[i] : i \in 1..n}
    IN  IF wheel /\ high = 0 THEN 5 ELSE high

score_hand(hand) ==
    LET suit_values == [i \in 1..Len(hand) |-> hand[i].suit]
        rank_values == [i \in 1..Len(hand) |-> hand[i].rank]
        rnum == [i \in 1..Len(hand) |-> Count(rank_values, rank_values[i])]
        rlet == [i \in 1..Len(hand) |-> Count(suit_values, suit_values[i])]
        is_flush == \E i \in 1..Len(hand) : rlet[i] >= 5
        rank_set == {rank_values[i] : i \in 1..Len(hand)}
        unique_ranks == SortedAsc(rank_set)
        straight_high_card == StraightHighCard(unique_ranks)
        is_straight == straight_high_card # 0
        Has(n) == \E i \in 1..Len(hand) : rnum[i] = n
    IN  IF is_flush /\ is_straight /\ {14, 13, 12, 11, 10} \subseteq rank_set
        THEN [handtype |-> "ROYAL_FLUSH", score |-> ScoreOf(1000, <<>>)]
        ELSE IF is_flush /\ is_straight
        THEN [handtype |-> "STRAIGHT_FLUSH",
              score |-> ScoreOf(900, <<straight_high_card>>)]
        ELSE IF Has(4)
        THEN [handtype |-> "FOUR_OF_A_KIND",
              score |-> check_four_of_a_kind(rank_values)]
        ELSE IF Has(3) /\ Has(2)
        THEN [handtype |-> "FULL_HOUSE",
              score |-> check_full_house(rank_values)]
        ELSE IF is_flush
        THEN [handtype |-> "FLUSH",
              score |-> ScoreOf(600, SortedListDesc(rank_values))]
        ELSE IF is_straight
        THEN [handtype |-> "STRAIGHT",
              score |-> ScoreOf(500, <<straight_high_card>>)]
        ELSE IF Has(3)
        THEN [handtype |-> "THREE_OF_A_KIND",
              score |-> check_three_of_a_kind(rank_values)]
        ELSE IF Count(rnum, 2) >= 4
        THEN [handtype |-> "TWO_PAIR",
              score |-> check_two_pair(rank_values)]
        ELSE IF Has(2)
        THEN [handtype |-> "PAIR", score |-> check_pair(rank_values)]
        ELSE [handtype |-> "HIGH_CARD",
              score |-> ScoreOf(100, SortedListDesc(rank_values))]

\* ---- the five-card hands that are scored -----------------------------------
\* Five cards in rank order. score_hand reads the suits only to count them, so
\* one hand per pattern of suits stands for all hands with the same ranks:
\* all five of one suit, or the suits dealt round so that equal ranks differ.
SuitPatterns == <<(<<"S", "S", "S", "S", "S">>), (<<"S", "H", "D", "C", "S">>)>>

HandOf(ranks, suits) == [i \in 1..5 |-> [rank |-> ranks[i], suit |-> suits[i]]]

\* five cards make a hand when no card is in it twice
IsHand(hand) == Cardinality({hand[i] : i \in 1..5}) = 5

\* the rank lists in order, from five twos to five aces
NextRanks(ranks) ==
    LET i == CHOOSE k \in 1..5 :
                /\ ranks[k] < 14
                /\ \A j \in (k + 1)..5 : ranks[j] = 14
    IN  [j \in 1..5 |-> IF j < i THEN ranks[j] ELSE ranks[i] + 1]

NoScore == ScoreOf(0, <<>>)

\* nothing scored yet: the lowest and highest score seen of each hand type
ScoringStart ==
    [ranks   |-> [i \in 1..5 |-> 2],
     pattern |-> 1,
     done    |-> FALSE,
     seen    |-> {},
     lowest  |-> [t \in {HandTypes[i] : i \in 1..Len(HandTypes)} |-> NoScore],
     highest |-> [t \in {HandTypes[i] : i \in 1..Len(HandTypes)} |-> NoScore]]

\* on to the next pattern of suits, then to the next rank list
Advance(sc) ==
    IF sc.pattern < Len(SuitPatterns)
    THEN [sc EXCEPT !.pattern = sc.pattern + 1]
    ELSE IF \A i \in 1..5 : sc.ranks[i] = 14
         THEN [sc EXCEPT !.done = TRUE]
         ELSE [sc EXCEPT !.pattern = 1, !.ranks = NextRanks(sc.ranks)]

\* the extremes of the scored hand's type, with one more score
Record(sc, result) ==
    LET t == result.handtype
        first == t \notin sc.seen
    IN  [sc EXCEPT
           !.seen = sc.seen \cup {t},
           !.lowest[t] = IF first \/ Less(result.score, sc.lowest[t])
                         THEN result.score ELSE sc.lowest[t],
           !.highest[t] = IF first \/ Less(sc.highest[t], result.score)
                          THEN result.score ELSE sc.highest[t]]

ActionType == {"FOLD", "CHECK", "CALL", "BET", "RAISE", "ALL_IN"}

Min(a, b) == IF a <= b THEN a ELSE b
Max(a, b) == IF a >= b THEN a ELSE b

\* players[i] of the code, i 0-based
At(ps, i) == ps[i + 1]

RECURSIVE SumStacks(_)
SumStacks(ps) ==
    IF ps = <<>> THEN 0 ELSE Head(ps).stack + SumStacks(Tail(ps))

\* The part of the game state that a player action reads and writes.
Betting(ps, p, cb, lrs) ==
    [players |-> ps, pot |-> p, current_bet |-> cb, last_raise_size |-> lrs]

\* History record of a step: kind "none" (no player was consulted),
\* "skipped" (_take_action_from_current_player returned at once; skips is the
\* parity of the run of such steps), "applied" or "rejected" (pre is the
\* betting state before the attempt, snap the one left by the exception).
NoAction ==
    [kind |-> "none", actor |-> 0, action_type |-> "NONE", amount |-> 0,
     pre |-> <<>>, snap |-> <<>>, skips |-> 0]

Skipped == [NoAction EXCEPT !.kind = "skipped"]

\* History record of _handle_showdown: pre is the betting state it was given
\* and winners the players (1-based positions) it paid.
Paid(G, winners) ==
    [kind |-> "showdown", actor |-> 0, action_type |-> "NONE", amount |-> 0,
     pre |-> G, snap |-> <<>>, skips |-> 0, winners |-> winners]

\* PlayerState as built by add_player for a player bringing `stack' chips
PlayerState(id, stack) ==
    [id |-> id, seat |-> id, stack |-> stack, current_bet |-> 0,
     total_contributed |-> 0, acted_this_street |-> FALSE,
     state_type |-> "ACTIVE", holding |-> FALSE]

\* ---- GameState queries (state.py) ---------------------------------------
get_players_in_hand(ps) ==
    {i \in 1..Len(ps) : ps[i].state_type # "FOLDED"}

get_current_player_exists(ps, cpi) == 0 <= cpi /\ cpi < Len(ps)

is_betting_round_complete(ps, cb) ==
    LET in_hand == {i \in 1..Len(ps) : ps[i].state_type # "FOLDED"}
        can_act == {i \in in_hand : ps[i].state_type = "ACTIVE"}
    IN  IF Cardinality(in_hand) <= 1 THEN TRUE
        ELSE IF can_act = {} THEN TRUE
        ELSE IF ~(\A i \in can_act : ps[i].acted_this_street) THEN FALSE
        ELSE IF ~(\A i \in can_act : ps[i].current_bet = cb) THEN FALSE
        ELSE TRUE

\* ---- betting core (game.py) ----------------------------------------------
SetPlayer(ps, cpi, rec) == [ps EXCEPT ![cpi + 1] = rec]

\* "for p in players: if p.id != player.id and p is ACTIVE: acted := False"
ResetOtherActed(ps, id) ==
    [k \in 1..Len(ps) |->
        IF ps[k].id # id /\ ps[k].state_type = "ACTIVE"
        THEN [ps[k] EXCEPT !.acted_this_street = FALSE]
        ELSE ps[k]]

get_valid_actions_raise_ignores_min(p, cb, mb, lrs) ==
    LET call_amount == cb - p.current_bet
    IN  {"FOLD"}
        \cup (IF call_amount = 0 THEN {"CHECK"}
              ELSE IF call_amount > 0 /\ p.stack > 0 THEN {"CALL"} ELSE {})
        \cup (IF cb = 0 /\ p.stack >= mb THEN {"BET"} ELSE {})
        \cup (IF cb > 0 /\ p.stack >= call_amount THEN {"RAISE"} ELSE {})
        \cup (IF p.stack > 0 THEN {"ALL_IN"} ELSE {})

get_valid_actions(p, cb, mb, lrs) ==
    LET call_amount == cb - p.current_bet
        total_needed_for_min_raise == call_amount + lrs
    IN  {"FOLD"}
        \cup (IF call_amount = 0 THEN {"CHECK"}
              ELSE IF call_amount > 0 /\ p.stack > 0 THEN {"CALL"} ELSE {})
        \cup (IF cb = 0 /\ p.stack >= mb THEN {"BET"} ELSE {})
        \cup (IF cb > 0 /\ p.stack >= total_needed_for_min_raise
              THEN {"RAISE"} ELSE {})
        \cup (IF p.stack > 0 THEN {"ALL_IN"} ELSE {})

calculate_raise_components(p, cb, chips_to_add) ==
    LET stack_before == p.stack
        player_bet_before == p.current_bet
        old_table_bet == cb
        player_add == Min(chips_to_add, stack_before)
        player_bet_after == player_bet_before + player_add
        new_table_bet == Max(old_table_bet, player_bet_after)
        call_needed == Max(0, old_table_bet - player_bet_before)
        call_part == Min(call_needed, player_add)
    IN  [player_add |-> player_add,
         player_bet_after |-> player_bet_after,
         new_table_bet |-> new_table_bet,
         call_part |-> call_part,
         raise_size |-> new_table_bet - old_table_bet,
         is_all_in |-> (player_add >= stack_before)]

Ok(g) == [ok |-> TRUE, g |-> g]
\* an exception is raised with the game left in state g
Raise(g) == [ok |-> FALSE, g |-> g]

ApplyFold(G, mb, cpi, amount) ==
    LET p == At(G.players, cpi)
    IN  Ok([G EXCEPT !.players =
                SetPlayer(@, cpi, [p EXCEPT !.state_type = "FOLDED"])])

ApplyCheck(G, mb, cpi, amount) ==
    LET p == At(G.players, cpi)
    IN  IF p.current_bet # G.current_bet THEN Raise(G) ELSE Ok(G)

ApplyCall_uncapped(G, mb, cpi, amount) ==
    LET p == At(G.players, cpi)
        call_amount == G.current_bet - p.current_bet
        actual_amount == Min(call_amount, p.stack)
        p1 == [p EXCEPT !.current_bet = @ + actual_amount,
                        !.total_contributed = @ + actual_amount,
                        !.stack = @ - actual_amount]
        p2 == IF p1.stack = 0 THEN [p1 EXCEPT !.state_type = "ALL_IN"] ELSE p1
    IN  Ok([G EXCEPT !.players = SetPlayer(@, cpi, p2),
                     !.pot = @ + call_amount])

ApplyCall_stays_active(G, mb, cpi, amount) ==
    LET p == At(G.players, cpi)
        call_amount == G.current_bet - p.current_bet
        actual_amount == Min(call_amount, p.stack)
        p1 == [p EXCEPT !.current_bet = @ + actual_amount,
                        !.total_contributed = @ + actual_amount,
                        !.stack = @ - actual_amount]
    IN  Ok([G EXCEPT !.players = SetPlayer(@, cpi, p1),
                     !.pot = @ + actual_amount])

\* a call whose chips are not booked as contributed to the pot
ApplyCall_not_contributed(G, mb, cpi, amount) ==
    LET p == At(G.players, cpi)
        call_amount == G.current_bet - p.current_bet
        actual_amount == Min(call_amount, p.stack)
        p1 == [p EXCEPT !.current_bet = @ + actual_amount,
                        !.stack = @ - actual_amount]
        p2 == IF p1.stack = 0 THEN [p1 EXCEPT !.state_type = "ALL_IN"] ELSE p1
    IN  Ok([G EXCEPT !.players = SetPlayer(@, cpi, p2),
                     !.pot = @ + actual_amount])

ApplyCall(G, mb, cpi, amount) ==
    LET p == At(G.players, cpi)
        call_amount == G.current_bet - p.current_bet
        actual_amount == Min(call_amount, p.stack)
        p1 == [p EXCEPT !.current_bet = @ + actual_amount,
                        !.total_contributed = @ + actual_amount,
                        !.stack = @ - actual_amount]
        p2 == IF p1.stack = 0 THEN [p1 EXCEPT !.state_type = "ALL_IN"] ELSE p1
    IN  Ok([G EXCEPT !.players = SetPlayer(@, cpi, p2),
                     !.pot = @ + actual_amount])

BetEffect_keeps_flags(G, cpi, amount) ==
    LET p == At(G.players, cpi)
        actual_amount == Min(amount, p.stack)
        p1 == [p EXCEPT !.current_bet = actual_amount,
                        !.total_contributed = @ + actual_amount,
                        !.stack = @ - actual_amount]
        p2 == IF p1.stack = 0 THEN [p1 EXCEPT !.state_type = "ALL_IN"] ELSE p1
    IN  [players |-> SetPlayer(G.players, cpi, p2),
         pot |-> G.pot + actual_amount,
         current_bet |-> actual_amount,
         last_raise_size |-> actual_amount]

\* the chip movement of the BET branch (lines 620-636)
BetEffect(G, cpi, amount) ==
    LET p == At(G.players, cpi)
        actual_amount == Min(amount, p.stack)
        p1 == [p EXCEPT !.current_bet = actual_amount,
                        !.total_contributed = @ + actual_amount,
                        !.stack = @ - actual_amount]
        p2 == IF p1.stack = 0 THEN [p1 EXCEPT !.state_type = "ALL_IN"] ELSE p1
    IN  [players |-> ResetOtherActed(SetPlayer(G.players, cpi, p2), p.id),
         pot |-> G.pot + actual_amount,
         current_bet |-> actual_amount,
         last_raise_size |-> actual_amount]

ApplyBet_validates_late(G, mb, cpi, amount) ==
    IF G.current_bet > 0 THEN Raise(G)
    ELSE IF amount < mb THEN Raise(BetEffect(G, cpi, amount))
    ELSE Ok(BetEffect(G, cpi, amount))

ApplyBet(G, mb, cpi, amount) ==
    IF G.current_bet > 0 THEN Raise(G)
    ELSE IF amount < mb THEN Raise(G)
    ELSE Ok(BetEffect(G, cpi, amount))

\* lines 664-685: apply a raise whose components are c
RaiseEffect(G, cpi, c) ==
    LET p == At(G.players, cpi)
        old_last_raise_size == G.last_raise_size
        p1 == [p EXCEPT !.current_bet = c.player_bet_after,
                        !.total_contributed = @ + c.player_add,
                        !.stack = @ - c.player_add]
        p2 == IF c.is_all_in THEN [p1 EXCEPT !.state_type = "ALL_IN"] ELSE p1
        ps == SetPlayer(G.players, cpi, p2)
        reopens_betting ==
            c.raise_size > 0 /\ c.raise_size >= old_last_raise_size
    IN  [players |-> IF reopens_betting THEN ResetOtherActed(ps, p.id) ELSE ps,
         pot |-> G.pot + c.player_add,
         current_bet |-> c.new_table_bet,
         last_raise_size |->
            IF reopens_betting THEN c.raise_size ELSE old_last_raise_size]

ApplyRaise_no_min_check(G, mb, cpi, amount) ==
    LET c == calculate_raise_components(At(G.players, cpi), G.current_bet,
                                        amount)
    IN  IF c.raise_size = 0 THEN Raise(G)
        ELSE Ok(RaiseEffect(G, cpi, c))

\* a raise that must exceed the minimum raise, not merely reach it
ApplyRaise_above_minimum(G, mb, cpi, amount) ==
    LET c == calculate_raise_components(At(G.players, cpi), G.current_bet,
                                        amount)
    IN  IF c.raise_size = 0 THEN Raise(G)
        ELSE IF ~c.is_all_in /\ c.raise_size <= G.last_raise_size
             THEN Raise(G)
        ELSE Ok(RaiseEffect(G, cpi, c))

ApplyRaise(G, mb, cpi, amount) ==
    LET c == calculate_raise_components(At(G.players, cpi), G.current_bet,
                                        amount)
    IN  IF c.raise_size = 0 THEN Raise(G)
        ELSE IF ~c.is_all_in /\ c.raise_size < G.last_raise_size THEN Raise(G)
        ELSE Ok(RaiseEffect(G, cpi, c))

ApplyAllIn_always_reopens(G, mb, cpi, amount) ==
    LET p == At(G.players, cpi)
        old_table_bet == G.current_bet
        old_last_raise_size == G.last_raise_size
        c == calculate_raise_components(p, G.current_bet, p.stack)
        p1 == [p EXCEPT !.current_bet = c.player_bet_after,
                        !.total_contributed = @ + c.player_add,
                        !.stack = 0,
                        !.state_type = "ALL_IN"]
        ps == SetPlayer(G.players, cpi, p1)
        raised == c.new_table_bet > old_table_bet
        reopens_betting == raised /\ c.raise_size > 0
    IN  Ok([players |-> IF reopens_betting THEN ResetOtherActed(ps, p.id)
                        ELSE ps,
            pot |-> G.pot + c.player_add,
            current_bet |-> IF raised THEN c.new_table_bet ELSE old_table_bet,
            last_raise_size |->
                IF reopens_betting THEN c.raise_size ELSE old_last_raise_size])

ApplyAllIn_records_short_raise(G, mb, cpi, amount) ==
    LET p == At(G.players, cpi)
        old_table_bet == G.current_bet
        old_last_raise_size == G.last_raise_size
        c == calculate_raise_components(p, G.current_bet, p.stack)
        p1 == [p EXCEPT !.current_bet = c.player_bet_after,
                        !.total_contributed = @ + c.player_add,
                        !.stack = 0,
                        !.state_type = "ALL_IN"]
        ps == SetPlayer(G.players, cpi, p1)
        raised == c.new_table_bet > old_table_bet
        reopens_betting ==
            raised /\ c.raise_size > 0 /\ c.raise_size >= old_last_raise_size
    IN  Ok([players |-> IF reopens_betting THEN ResetOtherActed(ps, p.id)
                        ELSE ps,
            pot |-> G.pot + c.player_add,
            current_bet |-> IF raised THEN c.new_table_bet ELSE old_table_bet,
            last_raise_size |->
                IF raised THEN c.raise_size ELSE old_last_raise_size])

ApplyAllIn(G, mb, cpi, amount) ==
    LET p == At(G.players, cpi)
        old_table_bet == G.current_bet
        old_last_raise_size == G.last_raise_size
        c == calculate_raise_components(p, G.current_bet, p.stack)
        p1 == [p EXCEPT !.current_bet = c.player_bet_after,
                        !.total_contributed = @ + c.player_add,
                        !.stack = 0,
                        !.state_type = "ALL_IN"]
        ps == SetPlayer(G.players, cpi, p1)
        raised == c.new_table_bet > old_table_bet
        reopens_betting ==
            raised /\ c.raise_size > 0 /\ c.raise_size >= old_last_raise_size
    IN  Ok([players |-> IF reopens_betting THEN ResetOtherActed(ps, p.id)
                        ELSE ps,
            pot |-> G.pot + c.player_add,
            current_bet |-> IF raised THEN c.new_table_bet ELSE old_table_bet,
            last_raise_size |->
                IF reopens_betting THEN c.raise_size ELSE old_last_raise_size])

\* the if/elif chain of _register_player_action and its last assignment
ApplyBranch(G, mb, cpi, action_type, amount) ==
    LET r == CASE action_type = "FOLD" -> ApplyFold(G, mb, cpi, amount)
               [] action_type = "CHECK" -> ApplyCheck(G, mb, cpi, amount)
               [] action_type = "CALL" -> ApplyCall(G, mb, cpi, amount)
               [] action_type = "BET" -> ApplyBet(G, mb, cpi, amount)
               [] action_type = "RAISE" -> ApplyRaise(G, mb, cpi, amount)
               [] OTHER -> ApplyAllIn(G, mb, cpi, amount)
    IN  IF r.ok
        THEN Ok([r.g EXCEPT !.players[cpi + 1].acted_this_street = TRUE])
        ELSE r

register_player_action_unchecked(G, mb, cpi, action_type, amount) ==
    IF ~get_current_player_exists(G.players, cpi) THEN Raise(G)
    ELSE IF At(G.players, cpi).state_type # "ACTIVE" THEN Raise(G)
    ELSE ApplyBranch(G, mb, cpi, action_type, amount)

register_player_action(G, mb, cpi, action_type, amount) ==
    IF ~get_current_player_exists(G.players, cpi) THEN Raise(G)
    ELSE IF At(G.players, cpi).state_type # "ACTIVE" THEN Raise(G)
    ELSE IF action_type \notin
                get_valid_actions(At(G.players, cpi), G.current_bet, mb,
                                  G.last_raise_size)
         THEN Raise(G)
    ELSE ApplyBranch(G, mb, cpi, action_type, amount)

\* what decide_action may return: any action type, any amount (None = 0)
Decisions(G, cpi) ==
    IF get_current_player_exists(G.players, cpi)
       /\ At(G.players, cpi).state_type = "ACTIVE"
    THEN {[action_type |-> t, amount |-> a] :
            t \in ActionType, a \in 0..(At(G.players, cpi).stack + 1)}
    ELSE {[action_type |-> "NONE", amount |-> 0]}

take_action_from_current_player_no_fallback(G, mb, cpi, d) ==
    IF ~get_current_player_exists(G.players, cpi)
       \/ At(G.players, cpi).state_type # "ACTIVE"
    THEN [g |-> G, last |-> Skipped]
    ELSE LET r == register_player_action(G, mb, cpi, d.action_type, d.amount)
             who == [actor |-> cpi, action_type |-> d.action_type,
                     amount |-> d.amount, pre |-> G, skips |-> 0]
         IN  IF r.ok
             THEN [g |-> r.g,
                   last |-> [kind |-> "applied", snap |-> <<>>] @@ who]
             ELSE [g |-> r.g,
                   last |-> [kind |-> "rejected", snap |-> r.g] @@ who]

take_action_from_current_player(G, mb, cpi, d) ==
    IF ~get_current_player_exists(G.players, cpi)
       \/ At(G.players, cpi).state_type # "ACTIVE"
    THEN [g |-> G, last |-> Skipped]
    ELSE LET r == register_player_action(G, mb, cpi, d.action_type, d.amount)
             who == [actor |-> cpi, action_type |-> d.action_type,
                     amount |-> d.amount, pre |-> G, skips |-> 0]
         IN  IF r.ok
             THEN [g |-> r.g,
                   last |-> [kind |-> "applied", snap |-> <<>>] @@ who]
             ELSE [g |-> register_player_action(r.g, mb, cpi, "FOLD", 0).g,
                   last |-> [kind |-> "rejected", snap |-> r.g] @@ who]

\* ---- hand lifecycle helpers (game.py) -------------------------------------
\* _start_new_hand, lines 412-419: the per-player reset
ResetPlayersForHand(ps) ==
    [k \in 1..Len(ps) |->
        [ps[k] EXCEPT !.current_bet = 0,
                      !.total_contributed = 0,
                      !.acted_this_street = FALSE,
                      !.holding = FALSE,
                      !.state_type = IF ps[k].stack > 0 THEN "ACTIVE" ELSE @]]

\* _start_new_hand, applied to the player list ps
start_new_hand(ps) ==
    /\ hand_number' = hand_number + 1
    /\ Len(ps) >= MinPlayers
    /\ deck' = 52
    /\ community_cards' = 0
    /\ pot' = 0
    /\ current_bet' = 0
    /\ last_raise_size' = 0
    /\ players' = ResetPlayersForHand(ps)
    /\ street' = "PRE_FLOP"
    /\ hand_start_chips' = SumStacks(ps)

deal_hole_cards(ps) ==
    [k \in 1..Len(ps) |->
        IF ps[k].state_type = "ACTIVE"
        THEN [ps[k] EXCEPT !.holding = TRUE] ELSE ps[k]]

NumDealt(ps) == 2 * Cardinality({k \in 1..Len(ps) : ps[k].state_type = "ACTIVE"})

\* one blind of _post_blinds: the player at index idx posts min(blind, stack)
\* a blind whose posting is booked as the player's action of the street
PostBlind_counts_as_acting(G, idx, blind) ==
    LET p == At(G.players, idx)
        amt == Min(blind, p.stack)
        p1 == [p EXCEPT !.current_bet = amt,
                        !.total_contributed = amt,
                        !.stack = @ - amt,
                        !.acted_this_street = TRUE]
        p2 == IF p1.stack = 0 THEN [p1 EXCEPT !.state_type = "ALL_IN"] ELSE p1
    IN  [G EXCEPT !.players = SetPlayer(@, idx, p2), !.pot = @ + amt]

PostBlind(G, idx, blind) ==
    LET p == At(G.players, idx)
        amt == Min(blind, p.stack)
        p1 == [p EXCEPT !.current_bet = amt,
                        !.total_contributed = amt,
                        !.stack = @ - amt]
        p2 == IF p1.stack = 0 THEN [p1 EXCEPT !.state_type = "ALL_IN"] ELSE p1
    IN  [G EXCEPT !.players = SetPlayer(@, idx, p2), !.pot = @ + amt]

post_blinds_utg_always_first(G, button) ==
    LET num_players == Len(G.players)
        sb_index == (button + 1) % num_players
        bb_index == (button + 2) % num_players
        g1 == PostBlind(G, sb_index, SmallBlind)
        g2 == PostBlind(g1, bb_index, BigBlind)
    IN  [g |-> [g2 EXCEPT !.current_bet = BigBlind,
                          !.last_raise_size = BigBlind],
         min_bet |-> BigBlind,
         current_player_index |-> (button + 3) % num_players]

post_blinds_bet_is_what_was_posted(G, button) ==
    LET num_players == Len(G.players)
        sb_index == (button + 1) % num_players
        bb_index == (button + 2) % num_players
        g1 == PostBlind(G, sb_index, SmallBlind)
        g2 == PostBlind(g1, bb_index, BigBlind)
        posted == At(g2.players, bb_index).current_bet
    IN  [g |-> [g2 EXCEPT !.current_bet = posted,
                          !.last_raise_size = posted],
         min_bet |-> BigBlind,
         current_player_index |->
            IF num_players = 2 THEN button ELSE (button + 3) % num_players]

post_blinds(G, button) ==
    LET num_players == Len(G.players)
        sb_index == (button + 1) % num_players
        bb_index == (button + 2) % num_players
        g1 == PostBlind(G, sb_index, SmallBlind)
        g2 == PostBlind(g1, bb_index, BigBlind)
    IN  [g |-> [g2 EXCEPT !.current_bet = BigBlind,
                          !.last_raise_size = BigBlind],
         min_bet |-> BigBlind,
         current_player_index |->
            IF num_players = 2 THEN button ELSE (button + 3) % num_players]

advance_to_next_player(ps, cpi) ==
    LET num_players == Len(ps)
        Wants(k) == LET q == At(ps, (cpi + k) % num_players)
                    IN  q.state_type = "ACTIVE" /\ ~q.acted_this_street
        hits == {k \in 1..num_players : Wants(k)}
    IN  IF hits = {} THEN cpi
        ELSE (cpi + CHOOSE k \in hits : \A j \in hits : k <= j) % num_players

\* the round reset leaving the minimum raise of the finished street standing
complete_betting_round_keeps_raise_size(G) ==
    [G EXCEPT !.players = [k \in 1..Len(@) |->
                              [@[k] EXCEPT !.current_bet = 0,
                                           !.acted_this_street = FALSE]],
              !.current_bet = 0]

complete_betting_round(G) ==
    [G EXCEPT !.players = [k \in 1..Len(@) |->
                              [@[k] EXCEPT !.current_bet = 0,
                                           !.acted_this_street = FALSE]],
              !.current_bet = 0,
              !.last_raise_size = 0]

\* the search for the first player of a street starting on the button itself
advance_to_first_active_player_from_button(ps, button) ==
    LET n == Len(ps)
        hits == {k \in 0..(n - 1) :
                    At(ps, (button + k) % n).state_type = "ACTIVE"}
    IN  IF hits = {} THEN button % n
        ELSE (button + CHOOSE k \in hits : \A j \in hits : k <= j) % n

advance_to_first_active_player(ps, button) ==
    LET n == Len(ps)
        first == (button + 1) % n
        hits == {k \in 0..(n - 1) : At(ps, (first + k) % n).state_type = "ACTIVE"}
    IN  IF hits = {} THEN first
        ELSE (first + CHOOSE k \in hits : \A j \in hits : k <= j) % n

\* The winners of _handle_showdown given the score sc[k] of each player.
Winners(ps, sc) ==
    LET scored == {k \in get_players_in_hand(ps) : ps[k].holding}
    IN  {k \in scored : \A j \in scored : sc[j] <= sc[k]}

handle_showdown_drops_remainder(ps, p, sc) ==
    LET in_hand == get_players_in_hand(ps)
        winners == Winners(ps, sc)
        pot_share == p \div Cardinality(winners)
    IN  IF Cardinality(in_hand) = 1
        THEN [k \in 1..Len(ps) |->
                IF k \in in_hand THEN [ps[k] EXCEPT !.stack = @ + p] ELSE ps[k]]
        ELSE [k \in 1..Len(ps) |->
                IF k \in winners
                THEN [ps[k] EXCEPT !.stack = @ + pot_share]
                ELSE ps[k]]

handle_showdown_pays_first_listed(ps, p, sc) ==
    LET in_hand == get_players_in_hand(ps)
        winners == Winners(ps, sc)
        pot_share == p \div Cardinality(winners)
        remainder == p % Cardinality(winners)
        Pos(k) == Cardinality({j \in winners :
                                 \/ ps[j].seat < ps[k].seat
                                 \/ ps[j].seat = ps[k].seat /\ j < k})
    IN  IF Cardinality(in_hand) = 1
        THEN [k \in 1..Len(ps) |->
                IF k = 1 THEN [ps[k] EXCEPT !.stack = @ + p] ELSE ps[k]]
        ELSE [k \in 1..Len(ps) |->
                IF k \in winners
                THEN [ps[k] EXCEPT !.stack =
                        @ + pot_share + (IF Pos(k) < remainder THEN 1 ELSE 0)]
                ELSE ps[k]]

handle_showdown(ps, p, sc) ==
    LET in_hand == get_players_in_hand(ps)
        winners == Winners(ps, sc)
        pot_share == p \div Cardinality(winners)
        remainder == p % Cardinality(winners)
        \* position of winner k in winners_sorted (sorted by seat; sorted()
        \* is stable, so equal seats keep their list order)
        Pos(k) == Cardinality({j \in winners :
                                 \/ ps[j].seat < ps[k].seat
                                 \/ ps[j].seat = ps[k].seat /\ j < k})
    IN  IF Cardinality(in_hand) = 1
        THEN [k \in 1..Len(ps) |->
                IF k \in in_hand THEN [ps[k] EXCEPT !.stack = @ + p] ELSE ps[k]]
        ELSE [k \in 1..Len(ps) |->
                IF k \in winners
                THEN [ps[k] EXCEPT !.stack =
                        @ + pot_share + (IF Pos(k) < remainder THEN 1 ELSE 0)]
                ELSE ps[k]]

WithChips_keeps_everyone(ps) == ps

\* list comprehension: [p for p in players if p.state.stack > 0]
RECURSIVE WithChips(_)
WithChips(ps) ==
    IF ps = <<>> THEN <<>>
    ELSE IF Head(ps).stack > 0 THEN <<Head(ps)>> \o WithChips(Tail(ps))
    ELSE WithChips(Tail(ps))

G0 == Betting(players, pot, current_bet, last_raise_size)

\* assign the betting state G and the history record
SetBetting(G, l) ==
    /\ players' = G.players
    /\ pot' = G.pot
    /\ current_bet' = G.current_bet
    /\ last_raise_size' = G.last_raise_size
    /\ last' = IF l.kind = "skipped"
               THEN [l EXCEPT !.skips = (last.skips + 1) % 2] ELSE l

\* ---- the deck and the cards of a hand (deck.py) ------------------------------
\* list(Suit) and list(Rank), in the order of the enumerations
SuitList == <<"H", "S", "C", "D">>
RankList == [i \in 1..13 |-> i + 1]

\* Deck.build: every rank with every suit, ranks outermost
build ==
    [i \in 1..(Len(RankList) * Len(SuitList)) |->
        [rank |-> RankList[((i - 1) \div Len(SuitList)) + 1],
         suit |-> SuitList[((i - 1) % Len(SuitList)) + 1]]]

\* Deck.shuffle: a permutation of the cards, here the cut after `cut` cards
shuffle(cards, cut) ==
    [i \in 1..Len(cards) |-> cards[((i - 1 + cut) % Len(cards)) + 1]]

\* Deck.standard_deck(shuffle=True)
standard_deck(cut) == shuffle(build, cut)

\* list.remove: the list without the first element equal to card
remove(cards, card) ==
    LET i == CHOOSE i \in 1..Len(cards) :
                /\ cards[i] = card
                /\ \A j \in 1..(i - 1) : cards[j] # card
    IN  SubSeq(cards, 1, i - 1) \o SubSeq(cards, i + 1, Len(cards))

RECURSIVE RemoveEach(_, _)
RemoveEach(cards, dealt_cards) ==
    IF dealt_cards = <<>> THEN cards
    ELSE RemoveEach(remove(cards, Head(dealt_cards)), Tail(dealt_cards))

\* the cards at the positions of S, lowest position first
RECURSIVE CardsAt(_, _)
CardsAt(cards, S) ==
    IF S = {} THEN <<>>
    ELSE LET i == CHOOSE i \in S : \A j \in S : i <= j
         IN  <<cards[i]>> \o CardsAt(cards, S \ {i})

\* random.sample(self.cards, n): the sets of n positions it may draw
Samples(cards, n) ==
    {S \in SUBSET (1..Min(Len(cards), Max(MaxPick, n))) : Cardinality(S) = n}

\* dealing that leaves the dealt cards in the deck
deal_keeps_cards(cards, S) ==
    [dealt_cards |-> CardsAt(cards, S), cards |-> cards]

\* Deck.deal for the sample S: the dealt cards and the deck they leave
deal(cards, S) ==
    LET dealt_cards == CardsAt(cards, S)
    IN  [dealt_cards |-> dealt_cards, cards |-> RemoveEach(cards, dealt_cards)]

\* The cards of one hand: the deck, the holdings in the order dealt, the
\* burned cards (the engine drops them) and the board; stage "ERROR" is a
\* deal from a deck with too few cards (random.sample raises ValueError).
NoDeal ==
    [stage |-> "NONE", deck |-> <<>>, holdings |-> <<>>, burned |-> <<>>,
     board |-> <<>>, active |-> 0]

Exhausted(d) == [d EXCEPT !.stage = "ERROR"]

\* _deal_hole_cards from player k (1-based) on: every outcome of deal(2) for
\* each ACTIVE player in turn
RECURSIVE HoleCardOutcomes(_, _)
HoleCardOutcomes(d, k) ==
    IF k > d.active THEN {[d EXCEPT !.stage = "PRE_FLOP"]}
    ELSE IF Len(d.deck) < 2 THEN {Exhausted(d)}
    ELSE UNION {LET r == deal(d.deck, S)
                IN  HoleCardOutcomes(
                        [d EXCEPT !.deck = r.cards,
                                  !.holdings = Append(@, r.dealt_cards)],
                        k + 1) : S \in Samples(d.deck, 2)}

\* _deal_flop, _deal_turn, _deal_river: burn one card, then deal n to the
\* board
StreetOutcomes(d, n, stage) ==
    IF Len(d.deck) < 1 THEN {Exhausted(d)}
    ELSE UNION {LET burn == deal(d.deck, B)
                IN  IF Len(burn.cards) < n
                    THEN {Exhausted([d EXCEPT !.deck = burn.cards])}
                    ELSE {LET r == deal(burn.cards, S)
                          IN  [d EXCEPT !.deck = r.cards,
                                        !.burned = @ \o burn.dealt_cards,
                                        !.board = @ \o r.dealt_cards,
                                        !.stage = stage] :
                            S \in Samples(burn.cards, n)} :
                B \in Samples(d.deck, 1)}

\* ---- observation events: subscribed handlers and player hooks --------------
observers == <<listeners, failing_hooks, notified>>

\* the handlers subscribed to type, from the k-th registration on: each is
\* called, and an exception it raises is caught
RECURSIVE CallHandlers(_, _, _)
CallHandlers(ls, type, k) ==
    IF k > Len(ls) THEN <<>>
    ELSE IF ls[k].type = type
         THEN <<[handler |-> k, raised |-> ls[k].raises]>>
              \o CallHandlers(ls, type, k + 1)
         ELSE CallHandlers(ls, type, k + 1)

\* the on_event hook of every player, an exception it raises is caught
CallHooks(ps) ==
    [k \in 1..Len(ps) |->
        [player |-> ps[k].id, raised |-> ps[k].id \in failing_hooks]]

\* the calls up to and including the first that raised
RECURSIVE UntilRaised(_)
UntilRaised(cs) ==
    IF cs = <<>> THEN <<>>
    ELSE IF Head(cs).raised THEN <<Head(cs)>>
         ELSE <<Head(cs)>> \o UntilRaised(Tail(cs))

RECURSIVE Reversed(_)
Reversed(cs) ==
    IF cs = <<>> THEN <<>> ELSE Append(Reversed(Tail(cs)), Head(cs))

\* a dispatcher that calls the newest registration first
emit_newest_first(type) ==
    /\ notified' = [calls |-> Reversed(CallHandlers(listeners, type, 1)),
                    hooks |-> CallHooks(players)]
    /\ UNCHANGED <<listeners, failing_hooks>>

\* a dispatcher that lets the first exception end the dispatch
emit_stops_at_exception(type) ==
    /\ LET cs == UntilRaised(CallHandlers(listeners, type, 1))
           failed == \E i \in 1..Len(cs) : cs[i].raised
       IN  notified' =
              [calls |-> cs,
               hooks |-> IF failed THEN <<>>
                         ELSE UntilRaised(CallHooks(players))]
    /\ UNCHANGED <<listeners, failing_hooks>>

\* one observation event of the given type: the handlers subscribed to it in
\* registration order, then the players' hooks; nothing else is touched
emit(type) ==
    /\ notified' = [calls |-> CallHandlers(listeners, type, 1),
                    hooks |-> CallHooks(players)]
    /\ UNCHANGED <<listeners, failing_hooks>>

Pop(tag) == event_queue # <<>> /\ Head(event_queue) = tag
\* step() has taken tag from the head of the queue and will return True
Take(tag) ==
    /\ Pop(tag)
    /\ stepped' = [event |-> tag, returned |-> TRUE]
    /\ error' = "NONE"
    /\ emit(tag)
    /\ UNCHANGED <<api_calls, scoring, dealing>>
Requeue_keeps_head(tag) == event_queue' = Append(event_queue, tag)

Requeue(tag) == event_queue' = Append(Tail(event_queue), tag)

\* ---- initial state and operations ----------------------------------------
Init ==
    /\ state_type = "WAITING_FOR_PLAYERS"
    /\ street = "PRE_FLOP"
    /\ players = <<>>
    /\ current_player_index = 0
    /\ community_cards = 0
    /\ deck = 0
    /\ pot = 0
    /\ current_bet = 0
    /\ min_bet = 0
    /\ last_raise_size = 0
    /\ hand_number = 0
    /\ button_position = 0
    /\ event_queue = <<>>
    /\ last = NoAction
    /\ hand_start_chips = 0
    /\ stepped = [event |-> "NONE", returned |-> FALSE]
    /\ error = "NONE"
    /\ api_calls = 0
    /\ listeners = <<>>
    /\ failing_hooks = {}
    /\ notified = [calls |-> <<>>, hooks |-> <<>>]
    /\ scoring = ScoringStart
    /\ dealing = NoDeal

\* the ids a caller gives its players: the lowest one not at the table
FreshId(ps) ==
    CHOOSE i \in 0..Len(ps) :
        /\ \A k \in 1..Len(ps) : ps[k].id # i
        /\ \A j \in 0..(i - 1) : \E k \in 1..Len(ps) : ps[k].id = j

\* add_player without its capacity check
JoinTable_ignores_capacity(stack) ==
    /\ state_type \in {"WAITING_FOR_PLAYERS", "READY"}
    /\ players' = Append(players,
                         [PlayerState(FreshId(players), stack)
                             EXCEPT !.seat = Len(players)])
    /\ state_type' =
          IF state_type = "WAITING_FOR_PLAYERS"
             /\ Len(players) + 1 >= MinPlayers
          THEN "READY" ELSE state_type
    /\ error' = "NONE"
    /\ emit("PLAYER_JOINED")
    /\ UNCHANGED <<street, current_player_index, community_cards, deck,
                   pot, current_bet, min_bet, last_raise_size, hand_number,
                   button_position, event_queue, last, hand_start_chips,
                   stepped>>

\* add_player past its two checks, with the PLAYER_JOINED handler it runs
JoinTable(stack) ==
    /\ Len(players) < MaxPlayers
    /\ state_type \in {"WAITING_FOR_PLAYERS", "READY"}
    /\ players' = Append(players,
                         [PlayerState(FreshId(players), stack)
                             EXCEPT !.seat = Len(players)])
    /\ state_type' =
          IF state_type = "WAITING_FOR_PLAYERS"
             /\ Len(players) + 1 >= MinPlayers
          THEN "READY" ELSE state_type
    /\ error' = "NONE"
    /\ emit("PLAYER_JOINED")
    /\ UNCHANGED <<street, current_player_index, community_cards, deck,
                   pot, current_bet, min_bet, last_raise_size, hand_number,
                   button_position, event_queue, last, hand_start_chips,
                   stepped>>

\* add_player on an idle game (before start(), which returns only when the
\* queue is drained)
AddPlayer ==
    \E stack \in 1..MaxStack :
        /\ event_queue = <<>>
        /\ JoinTable(stack)
        /\ UNCHANGED <<api_calls, scoring, dealing>>

\* start(): _initialize_game and the first tag; the drain loop is the
\* sequence of Handle* steps that follows
Start ==
    /\ event_queue = <<>>
    /\ state_type = "READY"
    /\ hand_number' = 0
    /\ event_queue' = <<"GAME_STARTED">>
    /\ error' = "NONE"
    /\ UNCHANGED <<api_calls, scoring, dealing>>
    /\ UNCHANGED observers
    /\ UNCHANGED <<state_type, street, players, current_player_index,
                   community_cards, deck, pot, current_bet, min_bet,
                   last_raise_size, button_position, last, hand_start_chips,
                   stepped>>

HandleGameStarted ==
    /\ Take("GAME_STARTED")
    /\ state_type = "READY"
    /\ state_type' = "STARTED"
    /\ start_new_hand(players)
    /\ Requeue("HAND_STARTED")
    /\ last' = NoAction
    /\ UNCHANGED <<current_player_index, min_bet, button_position>>

HandleHandStarted ==
    /\ Take("HAND_STARTED")
    /\ state_type \in {"STARTED", "HAND_COMPLETE"}
    /\ state_type' = "DEALING"
    /\ players' = deal_hole_cards(players)
    /\ deck' = deck - NumDealt(players)
    /\ Requeue("DEAL_HOLE_CARDS")
    /\ last' = NoAction
    /\ UNCHANGED <<street, current_player_index, community_cards, pot,
                   current_bet, min_bet, last_raise_size, hand_number,
                   button_position, hand_start_chips>>

HandleDealHoleCards ==
    /\ Take("DEAL_HOLE_CARDS")
    /\ state_type = "DEALING"
    /\ state_type' = "PRE_FLOP"
    /\ LET r == post_blinds(G0, button_position)
       IN  /\ SetBetting(r.g, NoAction)
           /\ min_bet' = r.min_bet
           /\ current_player_index' = r.current_player_index
    /\ Requeue("POST_BLINDS")
    /\ UNCHANGED <<street, community_cards, deck, hand_number,
                   button_position, hand_start_chips>>

\* the tags after which the current player is asked at once
TakeActionStep(tag) ==
    /\ Take(tag)
    /\ \E d \in Decisions(G0, current_player_index) :
          LET o == take_action_from_current_player(G0, min_bet,
                                                   current_player_index, d)
          IN  SetBetting(o.g, o.last)
    /\ Requeue("PLAYER_ACTION")
    /\ UNCHANGED <<state_type, street, current_player_index, community_cards,
                   deck, min_bet, hand_number, button_position,
                   hand_start_chips>>

HandlePostBlinds ==
    /\ state_type = "PRE_FLOP"
    /\ TakeActionStep("POST_BLINDS")

HandleDealFlop == TakeActionStep("DEAL_FLOP")

HandleDealTurn == TakeActionStep("DEAL_TURN")

HandleDealRiver == TakeActionStep("DEAL_RIVER")

HandlePlayerAction ==
    /\ Take("PLAYER_ACTION")
    /\ IF is_betting_round_complete(players, current_bet)
       THEN /\ SetBetting(complete_betting_round(G0), NoAction)
            /\ Requeue("BETTING_ROUND_COMPLETED")
            /\ UNCHANGED current_player_index
       ELSE LET cpi == advance_to_next_player(players, current_player_index)
            IN  /\ current_player_index' = cpi
                /\ \E d \in Decisions(G0, cpi) :
                      LET o == take_action_from_current_player(G0, min_bet,
                                                               cpi, d)
                      IN  SetBetting(o.g, o.last)
                /\ Requeue("PLAYER_ACTION")
    /\ UNCHANGED <<state_type, street, community_cards, deck, min_bet,
                   hand_number, button_position, hand_start_chips>>

\* entering SHOWDOWN: _handle_showdown with the scores the cards give
EnterShowdown ==
    /\ state_type' = "SHOWDOWN"
    /\ street' = "SHOWDOWN"
    /\ \E sc \in [1..Len(players) -> 1..NumScores] :
          /\ Cardinality(get_players_in_hand(players)) = 1
                \/ Winners(players, sc) # {}
          /\ players' = handle_showdown(players, pot, sc)
          /\ last' = Paid(G0,
                          IF Cardinality(get_players_in_hand(players)) = 1
                          THEN get_players_in_hand(players)
                          ELSE Winners(players, sc))
    /\ Requeue("SHOWDOWN")
    /\ UNCHANGED <<current_player_index, community_cards, deck>>

\* entering FLOP, TURN or RIVER: burn one card, deal n, pick the first seat
EnterStreet(stage, n, tag) ==
    /\ state_type' = stage
    /\ street' = stage
    /\ deck' = deck - 1 - n
    /\ community_cards' = community_cards + n
    /\ Requeue(tag)
    /\ current_player_index' =
          advance_to_first_active_player(players, button_position)
    /\ last' = NoAction
    /\ UNCHANGED players

HandleBettingRoundCompleted_no_run_out ==
    /\ Take("BETTING_ROUND_COMPLETED")
    /\ IF Cardinality(get_players_in_hand(players)) = 1
          \/ \A k \in 1..Len(players) : players[k].state_type # "ACTIVE"
       THEN EnterShowdown
       ELSE CASE state_type = "PRE_FLOP" -> EnterStreet("FLOP", 3, "DEAL_FLOP")
              [] state_type = "FLOP" -> EnterStreet("TURN", 1, "DEAL_TURN")
              [] state_type = "TURN" -> EnterStreet("RIVER", 1, "DEAL_RIVER")
              [] state_type = "RIVER" ->
                    community_cards = 5 /\ EnterShowdown
    /\ UNCHANGED <<pot, current_bet, min_bet, last_raise_size, hand_number,
                   button_position, hand_start_chips>>

HandleBettingRoundCompleted ==
    /\ Take("BETTING_ROUND_COMPLETED")
    /\ IF Cardinality(get_players_in_hand(players)) = 1
       THEN EnterShowdown
       ELSE CASE state_type = "PRE_FLOP" -> EnterStreet("FLOP", 3, "DEAL_FLOP")
              [] state_type = "FLOP" -> EnterStreet("TURN", 1, "DEAL_TURN")
              [] state_type = "TURN" -> EnterStreet("RIVER", 1, "DEAL_RIVER")
              [] state_type = "RIVER" ->
                    community_cards = 5 /\ EnterShowdown
    /\ UNCHANGED <<pot, current_bet, min_bet, last_raise_size, hand_number,
                   button_position, hand_start_chips>>

HandleShowdown ==
    /\ Take("SHOWDOWN")
    /\ state_type' = "HAND_COMPLETE"
    /\ Requeue("HAND_ENDED")
    /\ last' = NoAction
    /\ UNCHANGED <<street, players, current_player_index, community_cards,
                   deck, pot, current_bet, min_bet, last_raise_size,
                   hand_number, button_position, hand_start_chips>>

HandleHandEnded ==
    /\ Take("HAND_ENDED")
    /\ last' = NoAction
    /\ LET survivors == WithChips(players)
           n_players == Len(survivors)
       IN  IF n_players < MinPlayers
           THEN /\ players' = survivors
                /\ state_type' = "GAME_OVER"
                /\ Requeue("GAME_ENDED")
                /\ UNCHANGED <<street, community_cards, deck, pot, current_bet,
                               last_raise_size, hand_number, button_position,
                               hand_start_chips>>
           ELSE /\ button_position' = (button_position + 1) % n_players
                /\ IF hand_number >= MaxHands
                   THEN /\ players' = survivors
                        /\ state_type' = "GAME_OVER"
                        /\ Requeue("GAME_ENDED")
                        /\ UNCHANGED <<street, community_cards, deck, pot,
                                       current_bet, last_raise_size,
                                       hand_number, hand_start_chips>>
                   ELSE /\ start_new_hand(survivors)
                        /\ Requeue("HAND_STARTED")
                        /\ UNCHANGED state_type
    /\ UNCHANGED <<current_player_index, min_bet>>

HandleGameEnded ==
    /\ Take("GAME_ENDED")
    /\ event_queue' = Tail(event_queue)
    /\ last' = NoAction
    /\ UNCHANGED <<state_type, street, players, current_player_index,
                   community_cards, deck, pot, current_bet, min_bet,
                   last_raise_size, hand_number, button_position,
                   hand_start_chips>>

has_events == Len(event_queue) > 0

\* step() on an empty queue: nothing is handled, False is returned
StepIdle ==
    /\ ~has_events
    /\ stepped' = [event |-> "NONE", returned |-> FALSE]
    /\ error' = "NONE"
    /\ UNCHANGED <<api_calls, scoring, dealing>>
    /\ UNCHANGED observers
    /\ UNCHANGED <<state_type, street, players, current_player_index,
                   community_cards, deck, pot, current_bet, min_bet,
                   last_raise_size, hand_number, button_position, event_queue,
                   last, hand_start_chips>>

\* step(): pop one tag and run its handler, or find the queue empty
Step ==
    \/ HandleGameStarted
    \/ HandleHandStarted
    \/ HandleDealHoleCards
    \/ HandlePostBlinds
    \/ HandlePlayerAction
    \/ HandleBettingRoundCompleted
    \/ HandleDealFlop
    \/ HandleDealTurn
    \/ HandleDealRiver
    \/ HandleShowdown
    \/ HandleHandEnded
    \/ HandleGameEnded
    \/ StepIdle

Next == AddPlayer \/ Start \/ Step

Spec == Init /\ [][Next]_vars

\* start() keeps calling step() while the queue is non-empty
\* ---- tables with deeper stacks ----------------------------------------------
\* the stacks players sit down with at the deeper tables
DeepStacks == {MaxStack, MaxStack + 1}

AddPlayerDeep ==
    \E stack \in DeepStacks :
        /\ event_queue = <<>>
        /\ JoinTable(stack)
        /\ UNCHANGED <<api_calls, scoring, dealing>>

DeepNext == AddPlayerDeep \/ Start \/ Step

DeepSpec == Init /\ [][DeepNext]_vars

FairSpec == Spec /\ WF_vars(Step)

\* ---- a game driven step by step: calls made between two step() calls -------
\* one more call, while the run's budget of such calls lasts
ApiCall == api_calls < MaxApiCalls /\ api_calls' = api_calls + 1

PlayerIds == 0..(MaxPlayers - 1)

Seated(player_id) == \E k \in 1..Len(players) : players[k].id = player_id

\* list comprehension: [p for p in players if p.id != player_id]
RECURSIVE Without(_, _)
Without(ps, player_id) ==
    IF ps = <<>> THEN <<>>
    ELSE IF Head(ps).id # player_id
         THEN <<Head(ps)>> \o Without(Tail(ps), player_id)
         ELSE Without(Tail(ps), player_id)

\* everything a rejected call leaves alone
UnchangedGame ==
    UNCHANGED <<state_type, street, players, current_player_index,
                community_cards, deck, pot, current_bet, min_bet,
                last_raise_size, hand_number, button_position, event_queue,
                last, hand_start_chips, stepped, listeners, failing_hooks,
                notified, scoring, dealing>>

\* add_player while tags are queued (no check of add_player looks at the queue)
AddPlayerBetweenSteps ==
    \E stack \in 1..MaxStack :
        /\ event_queue # <<>>
        /\ ApiCall
        /\ JoinTable(stack)
        /\ UNCHANGED <<scoring, dealing>>

\* add_player raising ValueError on its first or its second check
AddPlayerRejected ==
    /\ ApiCall
    /\ \/ Len(players) >= MaxPlayers
       \/ state_type \notin {"WAITING_FOR_PLAYERS", "READY"}
    /\ error' = IF Len(players) >= MaxPlayers
                THEN "Table is full"
                ELSE "Cannot add players while game is in progress"
    /\ UnchangedGame

\* remove_player past its two checks, with the PLAYER_LEFT handler it runs
RemovePlayer ==
    \E player_id \in PlayerIds :
        /\ ApiCall
        /\ state_type \in {"WAITING_FOR_PLAYERS", "READY", "HAND_COMPLETE"}
        /\ Seated(player_id)
        /\ players' = Without(players, player_id)
        /\ state_type' =
              IF Len(players) - 1 < MinPlayers
              THEN "WAITING_FOR_PLAYERS" ELSE state_type
        /\ error' = "NONE"
        /\ emit("PLAYER_LEFT")
        /\ UNCHANGED <<scoring, dealing>>
        /\ UNCHANGED <<street, current_player_index, community_cards, deck,
                       pot, current_bet, min_bet, last_raise_size, hand_number,
                       button_position, event_queue, last, hand_start_chips,
                       stepped>>

\* remove_player raising ValueError on its first or its second check
RemovePlayerRejected ==
    \E player_id \in PlayerIds :
        /\ ApiCall
        /\ \/ state_type \notin
                 {"WAITING_FOR_PLAYERS", "READY", "HAND_COMPLETE"}
           \/ ~Seated(player_id)
        /\ error' =
              IF state_type \notin
                    {"WAITING_FOR_PLAYERS", "READY", "HAND_COMPLETE"}
              THEN "Cannot remove players while hand is in progress"
              ELSE "Player not found"
        /\ UnchangedGame

ApiNext ==
    \/ Next
    \/ AddPlayerBetweenSteps
    \/ AddPlayerRejected
    \/ RemovePlayer
    \/ RemovePlayerRejected

ApiSpec == Init /\ [][ApiNext]_vars

\* ---- a game with observers ------------------------------------------------
\* the event types the handlers of a run subscribe to
SubscribedTypes == {"GAME_STARTED", "PLAYER_ACTION"}

UnchangedTable ==
    UNCHANGED <<state_type, street, players, current_player_index,
                community_cards, deck, pot, current_bet, min_bet,
                last_raise_size, hand_number, button_position, event_queue,
                last, hand_start_chips, stepped, error, api_calls, scoring,
                dealing>>

\* subscribe(event_type, handler) on a table nobody has joined yet; the
\* handler either returns or raises whenever it is called
Subscribe ==
    \E type \in SubscribedTypes, raises \in BOOLEAN :
        /\ players = <<>>
        /\ Len(listeners) < MaxHandlers
        /\ listeners' = Append(listeners, [type |-> type, raises |-> raises])
        /\ UNCHANGED <<failing_hooks, notified>>
        /\ UnchangedTable

\* the player who will join under player_id has an on_event that raises
FailingHook ==
    \E player_id \in PlayerIds :
        /\ players = <<>>
        /\ player_id \notin failing_hooks
        /\ Cardinality(failing_hooks) < MaxFailingHooks
        /\ failing_hooks' = failing_hooks \cup {player_id}
        /\ UNCHANGED <<listeners, notified>>
        /\ UnchangedTable

\* add_player on an idle game, each player buying in for one big blind
AddPlayerOneBlind ==
    /\ event_queue = <<>>
    /\ JoinTable(BigBlind)
    /\ UNCHANGED <<api_calls, scoring, dealing>>

EventNext == Subscribe \/ FailingHook \/ AddPlayerOneBlind \/ Start \/ Step

EventSpec == Init /\ [][EventNext]_vars

\* ---- scoring every five-card hand ------------------------------------------
UnchangedByScoring ==
    UNCHANGED <<state_type, street, players, current_player_index,
                community_cards, deck, pot, current_bet, min_bet,
                last_raise_size, hand_number, button_position, event_queue,
                last, hand_start_chips, stepped, error, api_calls, listeners,
                failing_hooks, notified, dealing>>

\* score the hand in turn and keep the extremes of its type
ScoreHand ==
    LET hand == HandOf(scoring.ranks, SuitPatterns[scoring.pattern])
    IN  /\ ~scoring.done
        /\ IsHand(hand)
        /\ scoring' = Advance(Record(scoring, score_hand(hand)))
        /\ UnchangedByScoring

\* five cards with one card twice are no hand
SkipNoHand ==
    /\ ~scoring.done
    /\ ~IsHand(HandOf(scoring.ranks, SuitPatterns[scoring.pattern]))
    /\ scoring' = Advance(scoring)
    /\ UnchangedByScoring

ScoreNext == ScoreHand \/ SkipNoHand

ScoreSpec == Init /\ [][ScoreNext]_vars

\* ---- dealing the cards of a hand ---------------------------------------------
UnchangedByDealing ==
    UNCHANGED <<state_type, street, players, current_player_index,
                community_cards, deck, pot, current_bet, min_bet,
                last_raise_size, hand_number, button_position, event_queue,
                last, hand_start_chips, stepped, error, api_calls, listeners,
                failing_hooks, notified, scoring>>

\* _start_new_hand: a fresh shuffled deck, no board, no holdings; a hand may
\* end on any street
NewDeck ==
    /\ dealing.stage \in {"NONE", "PRE_FLOP", "FLOP", "TURN", "RIVER"}
    /\ \E n \in MinPlayers..MaxPlayers, cut \in 0..MaxCut :
          dealing' = [NoDeal EXCEPT !.stage = "DEALING",
                                    !.deck = standard_deck(cut),
                                    !.active = n]
    /\ UnchangedByDealing

DealHoleCards ==
    /\ dealing.stage = "DEALING"
    /\ dealing' \in HoleCardOutcomes(dealing, 1)
    /\ UnchangedByDealing

DealFlop ==
    /\ dealing.stage = "PRE_FLOP"
    /\ dealing' \in StreetOutcomes(dealing, 3, "FLOP")
    /\ UnchangedByDealing

DealTurn ==
    /\ dealing.stage = "FLOP"
    /\ dealing' \in StreetOutcomes(dealing, 1, "TURN")
    /\ UnchangedByDealing

DealRiver ==
    /\ dealing.stage = "TURN"
    /\ dealing' \in StreetOutcomes(dealing, 1, "RIVER")
    /\ UnchangedByDealing

DealNext == NewDeck \/ DealHoleCards \/ DealFlop \/ DealTurn \/ DealRiver

DealSpec == Init /\ [][DealNext]_vars

\* ---- observations used by the properties ----------------------------------
Asked == last.kind \in {"applied", "rejected"}
Applied == last.kind = "applied"
Rejected == last.kind = "rejected"

\* the acting player before the attempt, and now
ActorBefore == At(last.pre.players, last.actor)
ActorNow == At(players, last.actor)
Others == {k \in 1..Len(players) : k # last.actor + 1}

\* chips the last applied action took from the actor's stack
ChipsAdded == ActorBefore.stack - ActorNow.stack

\* raise_size as section 4.3 defines it: new_table_bet - current_bet, with
\* new_table_bet = player.current_bet + chips added
RaiseSize == ActorBefore.current_bet + ChipsAdded - last.pre.current_bet

\* the valid-actions enumeration as section 4.3 states it
ListedActions(p, cb, mb, lrs) ==
    {t \in ActionType :
        \/ t = "FOLD"
        \/ t = "CHECK" /\ p.current_bet = cb
        \/ t = "CALL" /\ cb - p.current_bet > 0 /\ p.stack > 0
        \/ t = "BET" /\ cb = 0 /\ p.stack >= mb
        \/ t = "RAISE" /\ cb > 0 /\ p.stack >= (cb - p.current_bet) + lrs
        \/ t = "ALL_IN" /\ p.stack > 0}

\* ---- properties ------------------------------------------------------------

\* C1: every player action the engine applies (the FOLD it substitutes for a
\* rejected action included) leaves the sum of all stacks plus the pot
\* unchanged.
C1_ChipConservation ==
    Asked => SumStacks(players) + pot
                = SumStacks(last.pre.players) + last.pre.pot

\* a short-stacked CALL (the caller cannot cover the whole amount) was applied
C1_Witness ==
    /\ Applied
    /\ last.action_type = "CALL"
    /\ ActorBefore.stack < last.pre.current_bet - ActorBefore.current_bet
    /\ pot > last.pre.pot

\* C2: an applied RAISE or ALL_IN reopens betting (other ACTIVE players'
\* acted_this_street := false, last_raise_size := raise_size) iff
\* raise_size > 0 and raise_size >= the previous last_raise_size; a short
\* all-in raises current_bet and commits the chips but leaves the other
\* players' flags and last_raise_size as they were.
C2_ReopenRule ==
    (Applied /\ last.action_type \in {"RAISE", "ALL_IN"}) =>
        IF RaiseSize > 0 /\ RaiseSize >= last.pre.last_raise_size
        THEN /\ last_raise_size = RaiseSize
             /\ \A k \in Others :
                   players[k].state_type = "ACTIVE"
                       => ~players[k].acted_this_street
        ELSE /\ last_raise_size = last.pre.last_raise_size
             /\ \A k \in Others : players[k] = last.pre.players[k]
             /\ RaiseSize > 0 =>
                   /\ current_bet = last.pre.current_bet + RaiseSize
                   /\ pot = last.pre.pot + ChipsAdded
                   /\ ActorNow.current_bet = current_bet

\* a short all-in was applied while another ACTIVE player had already acted
C2_Witness ==
    /\ Applied
    /\ last.action_type = "ALL_IN"
    /\ RaiseSize > 0
    /\ RaiseSize < last.pre.last_raise_size
    /\ \E k \in Others :
          players[k].state_type = "ACTIVE" /\ players[k].acted_this_street

\* C3: once start() has queued the first tag, the queue eventually becomes
\* empty with the game in GAME_OVER, whatever the players decide.
C3_StartTerminates ==
    (event_queue # <<>>) ~> (state_type = "GAME_OVER" /\ event_queue = <<>>)

\* After a short all-in that did not reopen betting, some ACTIVE player who
\* had already acted faces an unmatched amount.
ShortAllInPending ==
    /\ Applied
    /\ last.action_type = "ALL_IN"
    /\ RaiseSize > 0
    /\ RaiseSize < last.pre.last_raise_size
    /\ \E k \in Others :
          /\ players[k].state_type = "ACTIVE"
          /\ players[k].acted_this_street
          /\ players[k].current_bet < current_bet

\* C4: after a short all-in that does not reopen betting, the next step
\* gives the turn to a player (an ACTIVE one who still owes chips), so that
\* the round can close once the new current_bet is matched.
C4_OwingPlayersGetTheTurn ==
    [][ShortAllInPending =>
          /\ last'.kind \in {"applied", "rejected"}
          /\ At(players, last'.actor).state_type = "ACTIVE"
          /\ At(players, last'.actor).current_bet < current_bet]_vars

\* C5: when the engine rejects an action, the betting state at the moment of
\* the rejection (stacks, bets, contributions, state types, acted flags, pot,
\* table current_bet, last_raise_size) is the state before the attempt.
C5_RejectionMutatesNothing ==
    Rejected => last.snap = last.pre

\* a BET below min_bet was rejected although BET was a listed action
C5_Witness ==
    /\ Rejected
    /\ last.action_type = "BET"
    /\ last.pre.current_bet = 0
    /\ ActorBefore.stack >= min_bet
    /\ last.amount > 0
    /\ last.amount < min_bet

\* C6: when the returned action fails validation the player is FOLDED with
\* acted_this_street true, no chips move, nobody else is touched, and the
\* next transition tag is queued.
C6_FoldSubstituted ==
    Rejected =>
        /\ ActorNow = [ActorBefore EXCEPT !.state_type = "FOLDED",
                                          !.acted_this_street = TRUE]
        /\ \A k \in Others : players[k] = last.pre.players[k]
        /\ pot = last.pre.pot
        /\ current_bet = last.pre.current_bet
        /\ last_raise_size = last.pre.last_raise_size
        /\ event_queue = <<"PLAYER_ACTION">>

\* a RAISE that only covers part of the call was turned into a FOLD
C6_Witness ==
    /\ Rejected
    /\ last.action_type = "RAISE"
    /\ last.amount > 0
    /\ last.amount <= last.pre.current_bet - ActorBefore.current_bet
    /\ ActorNow.state_type = "FOLDED"

\* C7: an applied RAISE has raise_size > 0 and either raise_size >=
\* last_raise_size or the raiser is all-in; a RAISE whose chips only cover
\* (part of) the call, or a non-all-in RAISE with raise_size <
\* last_raise_size, is rejected.
C7_RaiseLegality ==
    /\ (Applied /\ last.action_type = "RAISE") =>
          /\ RaiseSize > 0
          /\ RaiseSize >= last.pre.last_raise_size \/ ActorNow.stack = 0
    /\ (Asked /\ last.action_type = "RAISE") =>
          LET add == Min(last.amount, ActorBefore.stack)
              raise_size == ActorBefore.current_bet + add
                               - last.pre.current_bet
          IN  (\/ raise_size <= 0
               \/ /\ add < ActorBefore.stack
                  /\ raise_size < last.pre.last_raise_size)
              => Rejected

\* RAISE was listed, and a non-all-in RAISE below the minimum was rejected
C7_Witness ==
    /\ Rejected
    /\ last.action_type = "RAISE"
    /\ "RAISE" \in get_valid_actions(ActorBefore, last.pre.current_bet,
                                     min_bet, last.pre.last_raise_size)
    /\ last.amount < ActorBefore.stack
    /\ ActorBefore.current_bet + last.amount > last.pre.current_bet

C9_AppliedWasListed ==
    Applied =>
        last.action_type \in
            get_valid_actions(ActorBefore, last.pre.current_bet, min_bet,
                              last.pre.last_raise_size)

\* a BET was applied
C9_Witness ==
    /\ Applied
    /\ last.action_type = "BET"
    /\ current_bet > 0

\* C10: when the hand has been paid out at showdown the stacks sum to what
\* they summed to when the hand started.
C10_ShowdownConservesChips ==
    state_type \in {"SHOWDOWN", "HAND_COMPLETE"}
        => SumStacks(players) = hand_start_chips

\* three players who started with 1, 2 and 3 chips are all ALL_IN at a
\* showdown on a full board (the 100/200/300 scenario, scaled)
C10_Witness ==
    /\ state_type = "SHOWDOWN"
    /\ Len(players) = 3
    /\ community_cards = 5
    /\ \A k \in 1..3 : players[k].state_type = "ALL_IN"
    /\ \A k \in 1..3 : players[k].total_contributed = k
    /\ hand_start_chips = 6

\* ---- showdown and hand lifecycle ------------------------------------------
PaidOut == last.kind = "showdown"

\* place of player k of ps in seat order starting at the seat left of the
\* button: 0 for the seat left of the button, the button itself last
SeatsFromButton(ps, button, k) ==
    (ps[k].seat - At(ps, button).seat - 1 + MaxPlayers) % MaxPlayers

\* C11: on a tied showdown every winner receives pot // n_winners, and the
\* pot % n_winners remainder chips go one each to the winners in seat order
\* starting from the seat left of the button.
C11_TieRemainderLeftOfButton ==
    (PaidOut /\ Cardinality(last.winners) >= 2) =>
        LET before == last.pre.players
            n_winners == Cardinality(last.winners)
            pot_share == last.pre.pot \div n_winners
            remainder == last.pre.pot % n_winners
            Place(k) ==
                Cardinality({j \in last.winners :
                    SeatsFromButton(before, button_position, j)
                        < SeatsFromButton(before, button_position, k)})
        IN  \A k \in last.winners :
                players[k].stack =
                    before[k].stack + pot_share
                        + (IF Place(k) < remainder THEN 1 ELSE 0)

\* the first hand of a heads-up game in which both players brought the
\* deepest stack
HeadsUpDeep ==
    /\ Len(players) = 2
    /\ hand_number = 1
    /\ hand_start_chips = 2 * MaxStack

\* C12: heads-up with two equal deep stacks the button posts the small blind
\* and acts first pre-flop; when it folds, the big blind wins the pot of the
\* two blinds uncontested and the button ends one small blind down, the other
\* player one small blind up (990 and 1010 for blinds 10/20, stacks 1000).
C12_HeadsUpButtonFolds ==
    /\ (HeadsUpDeep /\ event_queue = <<"POST_BLINDS">>) =>
          /\ At(players, button_position).current_bet = SmallBlind
          /\ current_player_index = button_position
    /\ (HeadsUpDeep /\ PaidOut
          /\ last.pre.pot = SmallBlind + BigBlind
          /\ At(players, button_position).state_type = "FOLDED") =>
          /\ At(players, button_position).stack = MaxStack - SmallBlind
          /\ At(players, 1 - button_position).stack = MaxStack + SmallBlind

\* the blinds have just been posted and nobody has been asked yet
BlindsPosted == event_queue = <<"POST_BLINDS">>

C14_ButtonToNextSeated ==
    [][(Pop("HAND_ENDED") /\ hand_number' = hand_number + 1) =>
          LET old == At(players, button_position).seat
              new == At(players', button_position').seat
              After(s) == (s - old - 1 + MaxPlayers) % MaxPlayers
          IN  \A k \in 1..Len(players') :
                  After(new) <= After(players'[k].seat)]_vars

\* C15: from the start of the first hand on, GAME_OVER and the states after
\* an elimination included, button_position is a valid position in the
\* current player list.
C15_ButtonIsSeated ==
    hand_number >= 1 =>
        /\ 0 <= button_position
        /\ button_position < Len(players)

\* the ids of the players of ps that still have chips
IdsWithChips(ps) == {ps[k].id : k \in {j \in 1..Len(ps) : ps[j].stack > 0}}

\* C16: the step that ends a hand removes exactly the players whose stack is
\* 0; it then goes to GAME_OVER if fewer than min_players survive or
\* hand_number >= max_hands (hand_number unchanged), and otherwise starts a new
\* hand with hand_number increased by exactly 1.
C16_HandEnd ==
    [][Pop("HAND_ENDED") =>
          /\ {players'[k].id : k \in 1..Len(players')} = IdsWithChips(players)
          /\ Len(players') = Cardinality(IdsWithChips(players))
          /\ \A k \in 1..Len(players') : players'[k].stack > 0
          /\ IF Cardinality(IdsWithChips(players)) < MinPlayers
                \/ hand_number >= MaxHands
             THEN /\ state_type' = "GAME_OVER"
                  /\ hand_number' = hand_number
                  /\ event_queue' = <<"GAME_ENDED">>
             ELSE /\ state_type' # "GAME_OVER"
                  /\ hand_number' = hand_number + 1
                  /\ event_queue' = <<"HAND_STARTED">>]_vars

\* a second hand has started after the first one eliminated the player of
\* seat 0
C16_Witness ==
    /\ hand_number = 2
    /\ event_queue = <<"HAND_STARTED">>
    /\ Len(players) = 2
    /\ players[1].id # 0

\* a hand in progress in which at least two players are in and none of them
\* is ACTIVE: everybody left is all-in
RunOut ==
    /\ state_type \in {"PRE_FLOP", "FLOP", "TURN", "RIVER"}
    /\ Cardinality(get_players_in_hand(players)) >= 2
    /\ \A k \in 1..Len(players) : players[k].state_type # "ACTIVE"

\* steps still to take before the showdown when nobody can act: three per
\* street (deal or blinds tag, PLAYER_ACTION, BETTING_ROUND_COMPLETED)
RunOutSteps ==
    LET streets_left ==
            CASE state_type = "PRE_FLOP" -> 3
              [] state_type = "FLOP" -> 2
              [] state_type = "TURN" -> 1
              [] state_type = "RIVER" -> 0
              [] OTHER -> 0
        in_street ==
            CASE Pop("BETTING_ROUND_COMPLETED") -> 1
              [] Pop("PLAYER_ACTION") -> 2
              [] OTHER -> 3
    IN  IF state_type = "SHOWDOWN" THEN 0 ELSE 3 * streets_left + in_street

\* C17: once at least two players are in the hand and none is ACTIVE, the
\* engine can always take a step, no step asks a player for a decision, every
\* step brings the showdown one step nearer (the remaining streets are dealt
\* one after another), and a showdown between two or more players has exactly
\* five community cards.
C17_AllInRunOut ==
    /\ [](RunOut => ENABLED Step)
    /\ [][RunOut => /\ ~Asked'
                    /\ RunOut' \/ state_type' = "SHOWDOWN"
                    /\ RunOutSteps' < RunOutSteps]_vars
    /\ [](PaidOut /\ Cardinality(get_players_in_hand(last.pre.players)) >= 2
            => community_cards = 5)

\* showdown between two all-in players who were all-in before the flop (the
\* blinds took the whole stack of one, the other called all-in)
C17_Witness ==
    /\ PaidOut
    /\ community_cards = 5
    /\ Cardinality(get_players_in_hand(players)) >= 2
    /\ \A k \in get_players_in_hand(players) :
          /\ players[k].state_type = "ALL_IN"
          /\ players[k].total_contributed <= BigBlind

\* C18: when a betting round completes with exactly one player not FOLDED,
\* on any street, the hand goes straight to the showdown, no further
\* community card is dealt, and that player receives the entire pot (nobody
\* else's stack changes).
C18_LastPlayerStanding ==
    [][(Pop("BETTING_ROUND_COMPLETED")
          /\ Cardinality({k \in 1..Len(players) :
                             players[k].state_type # "FOLDED"}) = 1) =>
          /\ state_type' = "SHOWDOWN"
          /\ event_queue' = <<"SHOWDOWN">>
          /\ community_cards' = community_cards
          /\ deck' = deck
          /\ \A k \in 1..Len(players) :
                players'[k].stack =
                    IF players[k].state_type # "FOLDED"
                    THEN players[k].stack + pot
                    ELSE players[k].stack]_vars

\* three-handed, the second player folded on the flop and left the third one,
\* who is not the first of the list, alone with the pot
C18_Witness ==
    /\ PaidOut
    /\ community_cards = 3
    /\ Len(players) = 3
    /\ last.winners = {3}
    /\ \A k \in {1, 2} : players[k].state_type = "FOLDED"
    /\ players[3].stack = last.pre.players[3].stack + last.pre.pot

\* ---- BET and CALL ------------------------------------------------------------
AppliedBet == Applied /\ last.action_type = "BET"

\* what C19 says of every applied BET apart from the new table bet
BetLegalAndFlags ==
    /\ last.pre.current_bet = 0
    /\ last.amount >= min_bet \/ last.amount = ActorBefore.stack
    /\ ActorNow.acted_this_street
    /\ \A k \in Others :
          players[k].state_type = "ACTIVE" => ~players[k].acted_this_street

\* C19 as stated: BET is accepted only when the table current_bet is 0 and the
\* amount is at least min_bet or exactly the player's stack; an accepted BET
\* sets the table current_bet and last_raise_size to the amount, clears
\* acted_this_street of every other ACTIVE player and sets the bettor's.
C19_AsStated ==
    AppliedBet =>
        /\ BetLegalAndFlags
        /\ current_bet = last.amount
        /\ last_raise_size = last.amount

\* C19, amended: as above, but the table current_bet and last_raise_size
\* become min(amount, stack), the chips actually bet: a BET for more than the
\* stack is accepted and capped at the stack.
C19_BetCappedAtStack ==
    AppliedBet =>
        /\ BetLegalAndFlags
        /\ current_bet = Min(last.amount, ActorBefore.stack)
        /\ last_raise_size = Min(last.amount, ActorBefore.stack)
        /\ ChipsAdded = Min(last.amount, ActorBefore.stack)

\* a BET for more than the stack was accepted after another player, still
\* ACTIVE, had checked
C19_Witness ==
    /\ AppliedBet
    /\ last.amount > ActorBefore.stack
    /\ \E k \in Others :
          /\ players[k].state_type = "ACTIVE"
          /\ last.pre.players[k].acted_this_street

\* what the actor owed before the last attempt
Owed == last.pre.current_bet - ActorBefore.current_bet

\* C20: a CALL moves exactly min(current_bet - player.current_bet, stack)
\* chips from the caller's stack to the pot; a player who cannot cover the
\* whole amount may still call; the caller is ALL_IN exactly when the stack
\* reached 0; the table current_bet, last_raise_size and every other player's
\* acted_this_street flag are unchanged.
C20_CallSemantics ==
    /\ (Applied /\ last.action_type = "CALL") =>
          /\ ChipsAdded = Min(Owed, ActorBefore.stack)
          /\ pot = last.pre.pot + ChipsAdded
          /\ ActorNow.current_bet = ActorBefore.current_bet + ChipsAdded
          /\ ActorNow.state_type =
                IF ActorNow.stack = 0 THEN "ALL_IN" ELSE "ACTIVE"
          /\ current_bet = last.pre.current_bet
          /\ last_raise_size = last.pre.last_raise_size
          /\ \A k \in Others :
                /\ players[k].acted_this_street
                      = last.pre.players[k].acted_this_street
                /\ players[k].stack = last.pre.players[k].stack
    /\ (Asked /\ last.action_type = "CALL"
          /\ Owed > 0 /\ ActorBefore.stack > 0) => Applied

\* three-handed, a caller who could not cover the amount went all-in while
\* another player, still ACTIVE, keeps the acted flag it had
C20_Witness ==
    /\ Applied
    /\ last.action_type = "CALL"
    /\ ActorBefore.stack < Owed
    /\ ActorNow.state_type = "ALL_IN"
    /\ Len(players) = 3
    /\ \E k \in Others :
          /\ players[k].state_type = "ACTIVE"
          /\ players[k].acted_this_street

\* ---- state invariants of a hand -----------------------------------------
\* a betting round is open: blinds are posted and the round is not yet reset
\* into a showdown
InBettingRound == state_type \in {"PRE_FLOP", "FLOP", "TURN", "RIVER"}

\* the highest current_bet among the players
RECURSIVE HighestBet(_)
HighestBet(ps) ==
    IF ps = <<>> THEN 0 ELSE Max(Head(ps).current_bet, HighestBet(Tail(ps)))

\* C21 as stated: at every point of a betting round the table current_bet
\* equals the highest current_bet among the players on that street.
C21_AsStated ==
    InBettingRound => current_bet = HighestBet(players)

\* C21, amended: the table current_bet equals the highest player current_bet,
\* except pre-flop while nobody has a full big blind in (the big-blind poster
\* was short): then it is big_blind, until the pre-flop round is reset.
C21_TableBetIsHighestOrBigBlind ==
    InBettingRound =>
        current_bet =
            IF state_type = "PRE_FLOP" /\ ~Pop("BETTING_ROUND_COMPLETED")
            THEN Max(BigBlind, HighestBet(players))
            ELSE HighestBet(players)

\* pre-flop, three-handed: the big blind was short, and a later raise has
\* lifted the table bet above the big blind
C21_Witness ==
    /\ state_type = "PRE_FLOP"
    /\ Len(players) = 3
    /\ Applied
    /\ last.pre.current_bet = BigBlind
    /\ HighestBet(last.pre.players) < BigBlind
    /\ current_bet > BigBlind

\* a hand is being played: from the deal to the end of the hand
InHand ==
    state_type \in {"DEALING", "PRE_FLOP", "FLOP", "TURN", "RIVER",
                    "SHOWDOWN", "HAND_COMPLETE"}

\* C22: in every state of a hand a player's stack is 0 iff the player is
\* ALL_IN or FOLDED with a zero stack: a player with chips is never ALL_IN
\* and an ACTIVE player never has a zero stack.
C22_ZeroStackIffAllIn ==
    InHand =>
        \A k \in 1..Len(players) :
            /\ players[k].stack = 0 <=>
                  \/ players[k].state_type = "ALL_IN"
                  \/ players[k].state_type = "FOLDED" /\ players[k].stack = 0
            /\ players[k].state_type = "ACTIVE" => players[k].stack > 0

\* C23: every transition tag processed by step() - blinds, street deals,
\* showdown payout, hand end and new-hand setup included - leaves the total
\* of all player stacks plus the pot unchanged.
C23_EveryStepConservesChips ==
    [][event_queue # <<>> =>
          SumStacks(players') + pot' = SumStacks(players) + pot]_vars

\* the step resets the betting round: the round is completed for the next
\* street, or a new hand is set up
RoundReset ==
    \/ event_queue' = <<"BETTING_ROUND_COMPLETED">>
    \/ Pop("HAND_ENDED")
    \/ Pop("GAME_STARTED")

\* C24: last_raise_size never decreases from one step to the next, player
\* actions and blinds included, except on the step that resets the round for
\* the next street or hand.
C24_LastRaiseSizeMonotone ==
    [][~RoundReset => last_raise_size' >= last_raise_size]_vars

\* heads-up, a short all-in lifted the table bet by less than the standing
\* minimum raise and last_raise_size stayed where it was
C24_Witness ==
    /\ Applied
    /\ last.action_type = "ALL_IN"
    /\ Len(players) = 2
    /\ current_bet > last.pre.current_bet
    /\ current_bet - last.pre.current_bet < last.pre.last_raise_size
    /\ last_raise_size = last.pre.last_raise_size
    /\ last_raise_size > 0

\* ---- the event loop ---------------------------------------------------------
\* everything but the record of step()'s return value
game_vars ==
    <<state_type, street, players, current_player_index, community_cards,
      deck, pot, current_bet, min_bet, last_raise_size, hand_number,
      button_position, event_queue, last, hand_start_chips>>

Errors ==
    {"Table is full", "Cannot add players while game is in progress",
     "Cannot remove players while hand is in progress", "Player not found"}

\* C26: a call made at the wrong time raises and changes neither the player
\* list nor the stage: no player is added while the table is full or the
\* stage is not WAITING_FOR_PLAYERS / READY, no player leaves the list while
\* a hand is in progress, a call that raised left players and state_type as
\* they were, and a call that changed nothing is one that raised.
C26_WrongTimeCallsRejected ==
    [][ /\ (error' # "NONE") =>
              /\ error' \in Errors
              /\ players' = players
              /\ state_type' = state_type
        /\ (\/ Len(players) >= MaxPlayers
            \/ state_type \notin {"WAITING_FOR_PLAYERS", "READY"}) =>
              /\ Len(players') <= Len(players)
              /\ (api_calls' # api_calls /\ Len(players') = Len(players)) =>
                    error' # "NONE"
        /\ (state_type \notin
               {"WAITING_FOR_PLAYERS", "READY", "HAND_COMPLETE"}) =>
              /\ Len(players') >= Len(players)
              /\ (api_calls' # api_calls) =>
                    (error' # "NONE" /\ players' = players)
        /\ (error' = "Player not found") =>
              \E player_id \in PlayerIds : ~Seated(player_id)
        /\ (error' = "Table is full") => Len(players) >= MaxPlayers
      ]_vars

\* remove_player was refused in the middle of a betting round, and add_player
\* can be refused next on a table that is full
C26_Witness ==
    /\ error = "Cannot remove players while hand is in progress"
    /\ state_type = "PRE_FLOP"
    /\ Len(players) = MaxPlayers
    /\ event_queue # <<>>

\* ---- C27 -------------------------------------------------------------------
\* the calls made to subscribed handlers while the head tag was processed
HandlerCalls == notified.calls

\* C27: within the step that processes a tag, exactly the handlers subscribed
\* to that event type are called, each once and in the order in which they
\* were registered; all of them have been called when the step ends, that is
\* before the next tag is taken from the queue.
C27_HandlersInRegistrationOrder ==
    [][ (event_queue # <<>>) =>
          LET tag == Head(event_queue)
              cs  == HandlerCalls'
          IN  /\ \A i \in 1..Len(cs) :
                    /\ cs[i].handler \in 1..Len(listeners)
                    /\ listeners[cs[i].handler].type = tag
              /\ \A k \in 1..Len(listeners) :
                    (listeners[k].type = tag) =>
                       Cardinality({i \in 1..Len(cs) : cs[i].handler = k}) = 1
              /\ \A i, j \in 1..Len(cs) :
                    (i < j) => cs[i].handler < cs[j].handler
              /\ stepped'.event = tag
      ]_vars

\* two handlers of the same event type were both called for a player action
C27_Witness ==
    /\ stepped.event = "PLAYER_ACTION"
    /\ Len(HandlerCalls) = MaxHandlers
    /\ HandlerCalls[1].handler = 1
    /\ state_type \in {"PRE_FLOP", "FLOP", "TURN", "RIVER"}

\* ---- C28 -------------------------------------------------------------------
SomeCallRaised ==
    \/ \E i \in 1..Len(notified.calls) : notified.calls[i].raised
    \/ \E i \in 1..Len(notified.hooks) : notified.hooks[i].raised

C29_HandTypesSeparateScores ==
    \A x, y \in scoring.seen :
        (TypeRank(x) < TypeRank(y)) =>
            Less(scoring.highest[x], scoring.lowest[y])

\* all hands are scored, all ten types were met, and within a type the scores
\* differ
C29_Witness ==
    /\ scoring.done
    /\ Cardinality(scoring.seen) = Len(HandTypes)
    /\ Less(scoring.lowest["PAIR"], scoring.highest["PAIR"])
    /\ scoring.highest["STRAIGHT_FLUSH"] = ScoreOf(900, <<13>>)

\* ---- C30 -------------------------------------------------------------------
\* an action was taken (as returned, or the FOLD put in its place) and the
\* PLAYER_ACTION tag queued behind it is next
AfterAction == last.kind \in {"applied", "rejected"} /\ Pop("PLAYER_ACTION")

\* the round-complete predicate, in the claim's words
RoundComplete ==
    \/ Cardinality({k \in 1..Len(players) :
                       players[k].state_type # "FOLDED"}) <= 1
    \/ \A k \in 1..Len(players) : players[k].state_type # "ACTIVE"
    \/ \A k \in 1..Len(players) :
          (players[k].state_type = "ACTIVE") =>
             /\ players[k].acted_this_street
             /\ players[k].current_bet = current_bet

\* a seat that can be given the turn: ACTIVE and not yet acted on this street
Eligible(i) ==
    /\ At(players, i).state_type = "ACTIVE"
    /\ ~At(players, i).acted_this_street

\* seat i is the first eligible seat after the current one, going round
NextEligible(i) ==
    /\ i \in 0..(Len(players) - 1)
    /\ Eligible(i)
    /\ \A k \in 1..Len(players) :
          LET j == (current_player_index + k) % Len(players)
              d == (i - current_player_index + Len(players)) % Len(players)
          IN  (k < (IF d = 0 THEN Len(players) ELSE d)) => ~Eligible(j)

\* C30: after each action the next step queues BETTING_ROUND_COMPLETED exactly
\* when the round-complete predicate holds, and otherwise gives the turn to
\* the next eligible seat and queues another PLAYER_ACTION.
C30_RoundEndsExactlyWhenComplete ==
    [][AfterAction =>
          IF RoundComplete
          THEN event_queue' = <<"BETTING_ROUND_COMPLETED">>
          ELSE /\ event_queue' = <<"PLAYER_ACTION">>
               /\ NextEligible(current_player_index')]_vars

\* the same, wherever a seat is left that can be given the turn
C30_WhereASeatIsEligible ==
    [][AfterAction =>
          IF RoundComplete
          THEN event_queue' = <<"BETTING_ROUND_COMPLETED">>
          ELSE /\ event_queue' = <<"PLAYER_ACTION">>
               /\ (\E i \in 0..(Len(players) - 1) : Eligible(i)) =>
                     NextEligible(current_player_index')]_vars

\* ---- C31 -------------------------------------------------------------------
\* the seats strictly between seat i and seat j, going round from i
SeatsBetween(i, j, n) ==
    {(i + k) % n : k \in 1..(((j - i + n) % n) - 1)}

\* C31: a player asked for a decision is ACTIVE (FOLDED and ALL_IN seats are
\* never asked); the first player asked after the blinds or after a deal is
\* the designated first-to-act, and within the round the turn goes on in seat
\* order: the next player asked is another seat, and every seat passed over
\* between the current seat and that player is FOLDED or ALL_IN.
C31_TurnsFollowSeatOrder ==
    [][ (event_queue # <<>> /\ last'.kind \in {"applied", "rejected"}) =>
          LET a == last'.actor
              n == Len(players)
          IN  /\ a \in 0..(n - 1)
              /\ At(players, a).state_type = "ACTIVE"
              /\ IF Pop("PLAYER_ACTION")
                 THEN /\ a # current_player_index
                      /\ current_player_index' = a
                      /\ \A i \in SeatsBetween(current_player_index, a, n) :
                            At(players, i).state_type \in {"FOLDED", "ALL_IN"}
                 ELSE a = current_player_index
      ]_vars

\* three-handed, the player asked last got the turn from the seat two before,
\* over a seat that had folded or was all-in
C31_Witness ==
    /\ Asked
    /\ Len(players) = 3
    /\ At(last.pre.players, (last.actor + 2) % 3).state_type
          \in {"FOLDED", "ALL_IN"}
    /\ At(last.pre.players, (last.actor + 1) % 3).state_type = "ACTIVE"
    /\ At(last.pre.players, (last.actor + 1) % 3).acted_this_street
    /\ state_type \in {"FLOP", "TURN", "RIVER"}

\* ---- C32 -------------------------------------------------------------------
\* the moves of the stage along the line of a hand
StageLine ==
    {<<"READY", "STARTED">>, <<"STARTED", "DEALING">>,
     <<"DEALING", "PRE_FLOP">>, <<"PRE_FLOP", "FLOP">>, <<"FLOP", "TURN">>,
     <<"TURN", "RIVER">>, <<"RIVER", "SHOWDOWN">>,
     <<"SHOWDOWN", "HAND_COMPLETE">>, <<"HAND_COMPLETE", "DEALING">>,
     <<"HAND_COMPLETE", "GAME_OVER">>}

\* the shortcut: from a betting street before the river straight to SHOWDOWN
StageShortcut == {<<"PRE_FLOP", "SHOWDOWN">>, <<"FLOP", "SHOWDOWN">>,
                  <<"TURN", "SHOWDOWN">>}

MoveTo(stage) == state_type' = stage /\ state_type # stage

\* seat i is the first ACTIVE seat left of the button among ps
FirstActiveLeftOfButton(ps, button, i) ==
    /\ i \in 0..(Len(ps) - 1)
    /\ At(ps, i).state_type = "ACTIVE"
    /\ \A j \in SeatsBetween(button, i, Len(ps)) :
          At(ps, j).state_type # "ACTIVE"
    /\ (i = button % Len(ps)) =>
          \A j \in 0..(Len(ps) - 1) :
             (j # i) => At(ps, j).state_type # "ACTIVE"

\* C33: on each move to FLOP, TURN or RIVER the deck gives one burned card
\* and 3, 1 and 1 community cards, the board then holds 3, 4 and 5 cards;
\* every player's current_bet is 0 and acted_this_street is false, the table
\* current_bet and last_raise_size are 0, and the turn is on the first ACTIVE
\* seat left of the button (where a seat is ACTIVE at all).
C33_NewStreet ==
    [][ \A stage \in {"FLOP", "TURN", "RIVER"} :
          MoveTo(stage) =>
             LET n == IF stage = "FLOP" THEN 3 ELSE 1
             IN  /\ deck' = deck - 1 - n
                 /\ community_cards' = community_cards + n
                 /\ community_cards' =
                       CASE stage = "FLOP" -> 3
                         [] stage = "TURN" -> 4
                         [] stage = "RIVER" -> 5
                 /\ \A k \in 1..Len(players') :
                       /\ players'[k].current_bet = 0
                       /\ ~players'[k].acted_this_street
                 /\ current_bet' = 0
                 /\ last_raise_size' = 0
                 /\ (\E k \in 1..Len(players') :
                        players'[k].state_type = "ACTIVE") =>
                       FirstActiveLeftOfButton(players', button_position,
                                               current_player_index')
      ]_vars

\* three-handed on the turn, the seat left of the button is out of the
\* betting and the turn is on a seat further round
C33_Witness ==
    /\ state_type = "TURN"
    /\ Pop("DEAL_TURN")
    /\ Len(players) = 3
    /\ community_cards = 4
    /\ At(players, (button_position + 1) % 3).state_type # "ACTIVE"
    /\ At(players, current_player_index).state_type = "ACTIVE"
    /\ current_player_index # (button_position + 1) % 3

\* ---- C34 -------------------------------------------------------------------
\* the action just applied reopened betting: a BET, or a RAISE or ALL_IN
\* whose raise is positive and at least the minimum raise it found
Reopened ==
    /\ Applied
    /\ \/ last.action_type = "BET"
       \/ /\ last.action_type \in {"RAISE", "ALL_IN"}
          /\ RaiseSize > 0
          /\ RaiseSize >= last.pre.last_raise_size

\* C34: last_raise_size is big_blind once the blinds are posted and 0 when a
\* post-flop street starts; within a street (the step that closes the round
\* aside) a step changes it only by applying an action that reopens betting,
\* which sets it to the size of the bet or raise; FOLD, CHECK, CALL, all-in
\* calls, short all-in raises and rejected actions leave it as it was.
C34_LastRaiseSize ==
    [][ /\ Pop("DEAL_HOLE_CARDS") => last_raise_size' = BigBlind
        /\ (\E stage \in {"FLOP", "TURN", "RIVER"} : MoveTo(stage))
              => last_raise_size' = 0
        /\ (InBettingRound /\ ~RoundReset /\ state_type' = state_type) =>
              IF Reopened'
              THEN last_raise_size' = RaiseSize'
              ELSE last_raise_size' = last_raise_size
      ]_vars

\* three-handed before the flop a player goes all-in for a raise below the
\* big blind, and the minimum raise stays the big blind
C34_Witness ==
    /\ state_type = "PRE_FLOP"
    /\ Len(players) = 3
    /\ Applied
    /\ last.action_type = "ALL_IN"
    /\ RaiseSize > 0
    /\ RaiseSize < last.pre.last_raise_size
    /\ last_raise_size = BigBlind

\* ---- C35 -------------------------------------------------------------------
\* the seats whose acted_this_street flag the step clears
FlagsCleared ==
    {k \in 1..Len(players) :
        /\ k <= Len(players')
        /\ players[k].acted_this_street
        /\ ~players'[k].acted_this_street}

\* The engine's record of "has acted since the last reopen" is
\* acted_this_street: every applied action sets the actor's flag, and within
\* a round only a reopening action of another player clears a flag.
ActedFlagIsTheRecord ==
    [][ /\ last'.kind = "applied" =>
              players'[last'.actor + 1].acted_this_street
        /\ (InBettingRound /\ ~RoundReset /\ state_type' = state_type
            /\ FlagsCleared # {}) =>
              /\ Reopened'
              /\ (last'.actor + 1) \notin FlagsCleared
      ]_vars

\* C35: within a betting round a player who has acted is asked again only
\* after a later BET, RAISE or ALL_IN reopened betting (cleared that player's
\* acted_this_street flag): the player a step asks has not acted since the
\* street began or betting was last reopened.
C35_ActsOncePerReopen ==
    [][ last'.kind \in {"applied", "rejected"} =>
           ~At(players, last'.actor).acted_this_street ]_vars

\* ---- C36 -------------------------------------------------------------------
\* the seats whose acted_this_street flag the step sets
FlagsSet ==
    {k \in 1..Len(players) :
        /\ k <= Len(players')
        /\ ~players[k].acted_this_street
        /\ players'[k].acted_this_street}

\* the seat (0-based) that posts the big blind
BigBlindSeat == (button_position + 2) % Len(players)

\* C36: posting a blind does not count as acting.  The step that posts the
\* blinds leaves every acted_this_street flag clear, a flag is set only for
\* the player the step asks, and when a pre-flop round is found complete with
\* at least two players in the hand and the big blind still ACTIVE, the big
\* blind's flag is set: the big blind was asked before the round completed.
C36_BigBlindGetsItsOption ==
    [][ /\ Pop("DEAL_HOLE_CARDS") =>
              \A k \in 1..Len(players') : ~players'[k].acted_this_street
        /\ FlagsSet # {} =>
              /\ last'.kind \in {"applied", "rejected"}
              /\ FlagsSet = {last'.actor + 1}
        /\ (state_type = "PRE_FLOP"
            /\ event_queue' = <<"BETTING_ROUND_COMPLETED">>
            /\ Cardinality(get_players_in_hand(players)) >= 2
            /\ At(players, BigBlindSeat).state_type = "ACTIVE") =>
              At(players, BigBlindSeat).acted_this_street
      ]_vars

\* three-handed, the others have called or folded without raising and the
\* big blind, who had only posted, is asked and checks
C36_Witness ==
    /\ state_type = "PRE_FLOP"
    /\ Len(players) = 3
    /\ Applied
    /\ last.actor = BigBlindSeat
    /\ last.action_type = "CHECK"
    /\ last.pre.current_bet = BigBlind
    /\ ActorBefore.current_bet = BigBlind
    /\ ~ActorBefore.acted_this_street
    /\ \A k \in Others :
          \/ last.pre.players[k].state_type = "FOLDED"
          \/ last.pre.players[k].acted_this_street
    /\ \E k \in Others : last.pre.players[k].state_type # "FOLDED"

\* ---- C37 -------------------------------------------------------------------
RECURSIVE SumContributed(_)
SumContributed(ps) ==
    IF ps = <<>> THEN 0
    ELSE Head(ps).total_contributed + SumContributed(Tail(ps))

\* C37: at every point of a hand from the posting of the blinds until the pot
\* is paid out (the betting stages PRE_FLOP, FLOP, TURN and RIVER) the pot
\* equals the sum of total_contributed over all players, and each player's
\* current_bet is at most that player's total_contributed.
C37_PotIsWhatWasContributed ==
    InBettingRound =>
        /\ Len(players) >= 2
        /\ pot = SumContributed(players)
        /\ \A k \in 1..Len(players) :
              players[k].current_bet <= players[k].total_contributed

\* on the flop, after a call before the flop and a bet on it, a player's
\* bet of the street is less than what the player has put in the pot
C37_Witness ==
    /\ state_type = "FLOP"
    /\ Applied
    /\ last.action_type \in {"BET", "ALL_IN"}
    /\ ActorNow.current_bet > 0
    /\ ActorNow.current_bet < ActorNow.total_contributed
    /\ pot = SumContributed(players)
    /\ pot > last.pre.pot

\* ---- C38 -------------------------------------------------------------------
\* the engine accepts action t with amount a from seat i (0-based) in the
\* present state, were seat i the one to act
Accepts(i, t, a) == register_player_action(G0, min_bet, i, t, a).ok

\* C38: every action type in the valid-actions list can be taken.  In every
\* state of a betting round, for every ACTIVE seat and every type listed for
\* it there is an amount with which the engine accepts the action; when RAISE
\* is listed a RAISE adding (current_bet - player.current_bet) +
\* last_raise_size chips is accepted, and when BET is listed a BET of min_bet
\* is accepted.
C38_ListedActionsCanBeTaken ==
    InBettingRound =>
        \A i \in 0..(Len(players) - 1) :
            At(players, i).state_type = "ACTIVE" =>
                LET p == At(players, i)
                    listed == get_valid_actions(p, current_bet, min_bet,
                                                last_raise_size)
                IN  /\ \A t \in listed :
                          \E a \in 0..p.stack : Accepts(i, t, a)
                    /\ "RAISE" \in listed =>
                          Accepts(i, "RAISE",
                                  (current_bet - p.current_bet)
                                     + last_raise_size)
                    /\ "BET" \in listed => Accepts(i, "BET", min_bet)

\* three-handed before the flop, a player has raised by exactly the minimum:
\* the call of the big blind plus a raise of the big blind
C38_Witness ==
    /\ state_type = "PRE_FLOP"
    /\ Len(players) = 3
    /\ Applied
    /\ last.action_type = "RAISE"
    /\ last.amount = (last.pre.current_bet - ActorBefore.current_bet)
                        + last.pre.last_raise_size
    /\ RaiseSize = last.pre.last_raise_size
    /\ ActorNow.state_type = "ACTIVE"

\* ---- C39 -------------------------------------------------------------------
RECURSIVE Flatten(_)
Flatten(lists) ==
    IF lists = <<>> THEN <<>> ELSE Head(lists) \o Flatten(Tail(lists))

\* every card that has left the deck in this hand
CardsOut == Flatten(dealing.holdings) \o dealing.burned \o dealing.board

Range(seq) == {seq[i] : i \in 1..Len(seq)}

====
